---- MODULE Spec2Model ----
(***************************************************************************)
(* A model of the n1qlizer immutable builder kernel: the persistent map    *)
(* (src/map.go), the persistent list (src/list.go), the generic accessor   *)
(* layer (src/unnamed/part_007, src/reflect.go) and the rendering protocol *)
(* (src/n1qlizer.go, and the SELECT builder of src/json.go).               *)
(*                                                                         *)
(* Pointers are addresses into a heap (a sequence of nodes); 0 is Go's nil *)
(* and address 1 is the shared empty sentinel (nilTree / nilList).  Text   *)
(* is a sequence of one-character strings, a key is a sequence of code     *)
(* points, and a uint64 is a tuple of 8 bytes, least significant first.    *)
(***************************************************************************)
EXTENDS Integers, Sequences, FiniteSets, TLC

VARIABLES trees, lists, handles, last, applog, mp, mlast, rcall, gomaps,
          registry, mux, stmts, built, procs, arrays

vars ==
    <<trees, lists, handles, last, applog, mp, mlast, rcall, gomaps, registry,
      mux, stmts, built, procs, arrays>>

(***************************************************************************)
(* Bounds                                                                  *)
(***************************************************************************)
MaxOps == 3
MaxMapOps == 4
MaxTemplateLen == 4
MaxParts == 3
MaxArgs == 2
MaxChildren == 2
MaxStmts == 3
MaxLists == 4
MaxChain == 4
MaxRegs == 3
MaxThreads == 2
MaxCalls == 3
MaxShared == 2

\* the calls of UpsertBuilder.Values in a run
MaxRows == 5

(***************************************************************************)
(* 64-bit unsigned arithmetic on 8 byte limbs                              *)
(***************************************************************************)
Limbs == 1..8

RECURSIVE ToU64(_, _)
ToU64(n, k) ==
    IF k = 0 THEN <<>> ELSE <<n % 256>> \o ToU64(n \div 256, k - 1)

Zero64 == ToU64(0, 8)

RECURSIVE XorBits(_, _, _)
XorBits(a, b, k) ==
    IF k = 0 THEN 0
    ELSE ((a + b) % 2) + 2 * XorBits(a \div 2, b \div 2, k - 1)

Xor64(a, b) == [i \in Limbs |-> XorBits(a[i], b[i], 8)]

MulCol(a, b, k) ==
    LET RECURSIVE S(_)
        S(i) == IF i > k THEN 0 ELSE a[i + 1] * b[k - i + 1] + S(i + 1)
    IN S(0)

RECURSIVE MulLimbs(_, _, _, _)
MulLimbs(a, b, k, carry) ==
    IF k > 7 THEN <<>>
    ELSE LET t == MulCol(a, b, k) + carry
         IN <<t % 256>> \o MulLimbs(a, b, k + 1, t \div 256)

Mul64(a, b) == MulLimbs(a, b, 0, 0)

Pow2(s) == IF s = 0 THEN 1 ELSE IF s = 1 THEN 2 ELSE IF s = 2 THEN 4
           ELSE IF s = 3 THEN 8 ELSE IF s = 4 THEN 16 ELSE IF s = 5 THEN 32
           ELSE IF s = 6 THEN 64 ELSE 128

\* x >> s for 0 <= s < 8
Shr64(x, s) ==
    [i \in Limbs |->
        (x[i] \div Pow2(s))
        + (IF i < 8 THEN (x[i + 1] % Pow2(s)) * Pow2(8 - s) ELSE 0)]

\* x % n for n dividing 256
Mod64(x, n) == x[1] % n

(***************************************************************************)
(* map.go: constants and hashing                                           *)
(***************************************************************************)
childCount == 2
shiftSize == 3

\* 14695981039346656037 = 0xCBF29CE484222325
offset64 == <<37, 35, 34, 132, 228, 156, 242, 203>>
\* 1099511628211 = 0x00000100000001B3
prime64 == <<179, 1, 0, 0, 0, 1, 0, 0>>

RECURSIVE hashFrom(_, _)
hashFrom(hash, key) ==
    IF key = <<>> THEN hash
    ELSE LET next == Mul64(Xor64(hash, ToU64(Head(key), 8)), prime64)
         IN \* the product, 8 limbs wide, is worked out before the next byte
            IF Len(next) = 8 THEN hashFrom(next, Tail(key)) ELSE Zero64

KeyX == <<88>>
KeyY == <<89>>
KeyI == <<73>>
KeyZ == <<90>>

Names == {KeyX, KeyY, KeyI}
MapKeys == {KeyX, KeyY, KeyI, KeyZ}

\* the field names of the registered structs
KeyAdd == <<65, 100, 100>>
KeyPlaceholderFormat == <<80, 108, 97, 99, 101, 104, 111, 108, 100, 101, 114, 70, 111, 114, 109, 97, 116>>
KeyTable == <<84, 97, 98, 108, 101>>
KeySetClauses == <<83, 101, 116, 67, 108, 97, 117, 115, 101, 115>>
KeyWhereParts == <<87, 104, 101, 114, 101, 80, 97, 114, 116, 115>>
KeyColumns == <<67, 111, 108, 117, 109, 110, 115>>
KeyFrom == <<70, 114, 111, 109>>
KeyLetsClause == <<76, 101, 116, 115, 67, 108, 97, 117, 115, 101>>
KeyRunWith == <<82, 117, 110, 87, 105, 116, 104>>
KeyPrefixes == <<80, 114, 101, 102, 105, 120, 101, 115>>
KeyOptions == <<79, 112, 116, 105, 111, 110, 115>>
KeyJoins == <<74, 111, 105, 110, 115>>
KeyGroupBys == <<71, 114, 111, 117, 112, 66, 121, 115>>
KeyHavingParts == <<72, 97, 118, 105, 110, 103, 80, 97, 114, 116, 115>>
KeyOrderByParts == <<79, 114, 100, 101, 114, 66, 121, 80, 97, 114, 116, 115>>
KeyLimit == <<76, 105, 109, 105, 116>>
KeyOffset == <<79, 102, 102, 115, 101, 116>>
KeySuffixes == <<83, 117, 102, 102, 105, 120, 101, 115>>
KeyUseKeys == <<85, 115, 101, 75, 101, 121, 115>>
KeyWindow == <<87, 105, 110, 100, 111, 119>>
KeyInto == <<73, 110, 116, 111>>
KeyKey == <<75, 101, 121>>
KeyValue == <<86, 97, 108, 117, 101>>
KeyValues == <<86, 97, 108, 117, 101, 115>>
KeySetMap == <<83, 101, 116, 77, 97, 112>>

FieldKeys ==
    {KeyAdd, KeyPlaceholderFormat, KeyTable, KeySetClauses,
     KeyWhereParts, KeyColumns, KeyFrom, KeyLetsClause, KeyInto, KeyKey,
     KeyValue, KeyValues, KeySetMap}

\* the hashes of the keys in use, computed once
hashOf == [key \in MapKeys \cup FieldKeys |-> hashFrom(offset64, key)]

hashKey(key) ==
    IF key \in DOMAIN hashOf THEN hashOf[key] ELSE hashFrom(offset64, key)

(***************************************************************************)
(* Values of type any: t is the dynamic type, v the payload (an int as a   *)
(* one-element tuple, a List as the one-element tuple of its address, a    *)
(* slice as the tuple of its elements).                                    *)
(***************************************************************************)
Nil == 0
nilTree == 1
nilList == 1

NilVal == [t |-> "nil", v |-> <<>>]
IntVal(n) == [t |-> "int", v |-> <<n>>]
ListVal(p) == [t |-> "list", v |-> <<p>>]
SliceVal(s) == [t |-> "slice", v |-> s]
StrVal(s) == [t |-> "string", v |-> s]
FragVal(f) == [t |-> "N1qlizer", v |-> <<f>>]
FormatVal(f) == [t |-> "PlaceholderFormat", v |-> <<f>>]
MapVal(a) == [t |-> "map", v |-> <<a>>]

\* The node nilTree points at once init() has linked its children to itself.
nilTreeNode ==
    [count |-> 0, hash |-> Zero64, key |-> <<>>, value |-> NilVal,
     children |-> <<nilTree, nilTree>>]

\* The node nilList points at: &list{}.
nilListNode == [depth |-> 0, value |-> NilVal, tail |-> Nil]

NewMap == nilTree
NewList == nilList

Alloc(h, node) == [h |-> Append(h, node), p |-> Len(h) + 1]

(***************************************************************************)
(* map.go: the path-copying tree.  Every operator takes the heap h and     *)
(* returns the heap it leaves behind together with its results.            *)
(***************************************************************************)
IsNil(self) == self = nilTree

cloneAlias(h, self) == [h |-> h, p |-> self]

clone(h, self) == Alloc(h, h[self])

Size(h, m) == IF m = Nil \/ IsNil(m) THEN 0 ELSE h[m].count

isLeaf(h, m) == Size(h, m) = 1

count1(h, m) == IF m = Nil THEN h ELSE [h EXCEPT ![m].count = 1]

recalculateCount(h, m) ==
    IF m = Nil THEN h
    ELSE LET RECURSIVE Sum(_)
             Sum(j) == IF j > childCount THEN 0
                       ELSE (IF h[m].children[j] # Nil
                             THEN Size(h, h[m].children[j]) ELSE 0) + Sum(j + 1)
         IN [h EXCEPT ![m].count = Sum(1) + 1]

RECURSIVE setLowLevel(_, _, _, _, _, _)
setLowLevel(h, self, partialHash, hash, key, value) ==
    IF self = Nil \/ IsNil(self)
    THEN Alloc(h, [count |-> 1, hash |-> hash, key |-> key, value |-> value,
                   children |-> <<Nil, Nil>>])
    ELSE IF hash # h[self].hash
    THEN LET c == clone(h, self)
             m == c.p
             i == Mod64(partialHash, childCount) + 1
             r == IF c.h[self].children[i] = Nil
                  THEN Alloc(c.h, [count |-> 1, hash |-> hash, key |-> key,
                                   value |-> value, children |-> <<Nil, Nil>>])
                  ELSE setLowLevel(c.h, c.h[self].children[i],
                                   Shr64(partialHash, shiftSize), hash, key, value)
             h2 == [r.h EXCEPT ![m].children[i] = r.p]
         IN [h |-> recalculateCount(h2, m), p |-> m]
    ELSE LET c == clone(h, self)
         IN [h |-> [c.h EXCEPT ![c.p].value = value], p |-> c.p]

MapSet(h, self, key, value) == setLowLevel(h, self, Zero64, hashKey(key), key, value)

\* returns (deleted, rest); panic is set where the code panics or
\* dereferences nil
RECURSIVE deleteLeftmost(_, _)
deleteLeftmost(h, m) ==
    IF m = Nil
    THEN [h |-> h, deleted |-> Nil, rest |-> Nil, panic |-> TRUE]
    ELSE IF isLeaf(h, m)
    THEN [h |-> h, deleted |-> m, rest |-> nilTree, panic |-> FALSE]
    ELSE LET js == {j \in 1..childCount :
                        h[m].children[j] # Nil /\ h[m].children[j] # nilTree}
         IN IF js = {}
            THEN [h |-> h, deleted |-> Nil, rest |-> Nil, panic |-> TRUE]
            ELSE LET i == CHOOSE j \in js : \A k \in js : j <= k
                     d == deleteLeftmost(h, h[m].children[i])
                 IN IF d.panic THEN d
                    ELSE LET c == clone(d.h, m)
                             h2 == [c.h EXCEPT ![c.p].children[i] = d.rest]
                         IN [h |-> recalculateCount(h2, c.p), deleted |-> d.deleted,
                             rest |-> c.p, panic |-> FALSE]

lastChild(h, self) == childCount

\* the slot the replacement is taken from: the first child of largest Size
largestChild(h, self) ==
    CHOOSE i \in 1..childCount :
        /\ \A j \in 1..childCount :
              Size(h, h[self].children[j]) <= Size(h, h[self].children[i])
        /\ \A j \in 1..(i - 1) :
              Size(h, h[self].children[j]) < Size(h, h[self].children[i])

RECURSIVE deleteLowLevel(_, _, _, _)
deleteLowLevel(h, self, partialHash, hash) ==
    IF self = Nil \/ IsNil(self)
    THEN [h |-> h, p |-> self, found |-> FALSE, panic |-> FALSE]
    ELSE IF hash # h[self].hash
    THEN LET i == Mod64(partialHash, childCount) + 1
         IN IF h[self].children[i] = Nil
            THEN [h |-> h, p |-> self, found |-> FALSE, panic |-> FALSE]
            ELSE LET d == deleteLowLevel(h, h[self].children[i],
                                         Shr64(partialHash, shiftSize), hash)
                 IN IF d.panic THEN d
                    ELSE IF ~d.found
                    THEN [h |-> d.h, p |-> self, found |-> FALSE, panic |-> FALSE]
                    ELSE LET c == clone(d.h, self)
                             h2 == [c.h EXCEPT ![c.p].children[i] = d.p]
                         IN [h |-> recalculateCount(h2, c.p), p |-> c.p,
                             found |-> TRUE, panic |-> FALSE]
    ELSE IF isLeaf(h, self)
    THEN [h |-> h, p |-> nilTree, found |-> TRUE, panic |-> FALSE]
    ELSE LET i == largestChild(h, self)
             d == deleteLeftmost(h, h[self].children[i])
         IN IF d.panic
            THEN [h |-> d.h, p |-> Nil, found |-> FALSE, panic |-> TRUE]
            ELSE LET c == clone(d.h, d.deleted)
                     h2 == [c.h EXCEPT ![c.p].children =
                               [j \in 1..childCount |->
                                   IF j = i THEN d.rest ELSE d.h[self].children[j]]]
                 IN [h |-> recalculateCount(h2, c.p), p |-> c.p,
                     found |-> TRUE, panic |-> FALSE]

MapDelete(h, m, key) ==
    LET hash == hashKey(key) IN deleteLowLevel(h, m, hash, hash)

RECURSIVE lookupLowLevel(_, _, _, _)
lookupLowLevel(h, self, partialHash, hash) ==
    IF self = Nil \/ IsNil(self)
    THEN [val |-> NilVal, found |-> FALSE]
    ELSE IF hash # h[self].hash
    THEN LET i == Mod64(partialHash, childCount) + 1
         IN IF h[self].children[i] = Nil
            THEN [val |-> NilVal, found |-> FALSE]
            ELSE lookupLowLevel(h, h[self].children[i],
                                Shr64(partialHash, shiftSize), hash)
    ELSE [val |-> h[self].value, found |-> TRUE]

MapLookupByHash(h, m, key) == lookupLowLevel(h, m, hashKey(key), hashKey(key))

MapLookup(h, m, key) == lookupLowLevel(h, m, Zero64, hashKey(key))

(***************************************************************************)
(* list.go: the persistent list                                            *)
(***************************************************************************)
ListSize(lh, self) == lh[self].depth

ConsInPlace(lh, tail, val) ==
    [h |-> [lh EXCEPT ![tail] = [depth |-> lh[tail].depth + 1, value |-> val,
                                 tail |-> tail]],
     p |-> tail]

Cons(lh, tail, val) ==
    Alloc(lh, [depth |-> lh[tail].depth + 1, value |-> val, tail |-> tail])

ListHead(lh, self) == lh[self].value

ListTail(lh, self) == lh[self].tail

\* NewGenericList allocates its empty list; a genericList node has the
\* fields of a list node
NewGenericList(lh) == Alloc(lh, [depth |-> 0, value |-> NilVal, tail |-> Nil])

ListIsNilByAddress(kind, lh, self) == self = nilList

\* IsNil: a list is empty when it is nilList, a generic list when its depth
\* is 0
ListIsNil(kind, lh, self) ==
    IF kind = "generic" THEN lh[self].depth = 0 ELSE self = nilList

\* Head and Tail with their check for the empty list
list_Head(kind, lh, self) ==
    IF ListIsNil(kind, lh, self) THEN [panic |-> TRUE, val |-> NilVal]
    ELSE [panic |-> FALSE, val |-> ListHead(lh, self)]

list_Tail(kind, lh, self) ==
    IF ListIsNil(kind, lh, self) THEN [panic |-> TRUE, p |-> Nil]
    ELSE [panic |-> FALSE, p |-> ListTail(lh, self)]

(***************************************************************************)
(* registry_impl.go: the registry of builder shapes.  A reflect.Type is    *)
(* its name; a struct type has a table of fields, each with the name of    *)
(* its type.  The RWMutex is its writer flag and its count of readers.     *)
(***************************************************************************)
Foo ==
    (KeyX :> "int") @@ (KeyY :> "int") @@ (KeyI :> "any")
        @@ (KeyAdd :> "[]int")

updateData ==
    (KeyPlaceholderFormat :> "PlaceholderFormat")
        @@ (KeyRunWith :> "QueryRunner") @@ (KeyPrefixes :> "[]N1qlizer")
        @@ (KeyTable :> "string") @@ (KeySetClauses :> "map")
        @@ (KeyWhereParts :> "[]N1qlizer") @@ (KeyUseKeys :> "string")
        @@ (KeyLimit :> "string") @@ (KeyOffset :> "string")
        @@ (KeySuffixes :> "[]N1qlizer")

selectData ==
    (KeyPlaceholderFormat :> "PlaceholderFormat")
        @@ (KeyRunWith :> "QueryRunner") @@ (KeyPrefixes :> "[]N1qlizer")
        @@ (KeyOptions :> "[]string") @@ (KeyColumns :> "[]N1qlizer")
        @@ (KeyFrom :> "N1qlizer") @@ (KeyJoins :> "[]N1qlizer")
        @@ (KeyWhereParts :> "[]N1qlizer") @@ (KeyGroupBys :> "[]string")
        @@ (KeyHavingParts :> "[]N1qlizer")
        @@ (KeyOrderByParts :> "[]N1qlizer") @@ (KeyLimit :> "string")
        @@ (KeyOffset :> "string") @@ (KeySuffixes :> "[]N1qlizer")
        @@ (KeyUseKeys :> "string")

analyticsSelectData ==
    (KeyPlaceholderFormat :> "PlaceholderFormat")
        @@ (KeyRunWith :> "QueryRunner") @@ (KeyPrefixes :> "[]N1qlizer")
        @@ (KeyOptions :> "[]string") @@ (KeyColumns :> "[]N1qlizer")
        @@ (KeyFrom :> "N1qlizer") @@ (KeyJoins :> "[]N1qlizer")
        @@ (KeyWhereParts :> "[]N1qlizer") @@ (KeyGroupBys :> "[]string")
        @@ (KeyHavingParts :> "[]N1qlizer")
        @@ (KeyOrderByParts :> "[]N1qlizer") @@ (KeyLimit :> "string")
        @@ (KeyOffset :> "string") @@ (KeyLetsClause :> "map")
        @@ (KeyWindow :> "string") @@ (KeySuffixes :> "[]N1qlizer")

upsertData ==
    (KeyPlaceholderFormat :> "PlaceholderFormat")
        @@ (KeyRunWith :> "QueryRunner") @@ (KeyPrefixes :> "[]N1qlizer")
        @@ (KeyOptions :> "[]string") @@ (KeyInto :> "string")
        @@ (KeyKey :> "string") @@ (KeyValue :> "any")
        @@ (KeyColumns :> "[]string") @@ (KeyValues :> "[][]any")
        @@ (KeySuffixes :> "[]N1qlizer") @@ (KeySetMap :> "map")

StructTypes ==
    [Foo |-> Foo, updateData |-> updateData, selectData |-> selectData,
     analyticsSelectData |-> analyticsSelectData, upsertData |-> upsertData]

\* reflect.Type.Kind() = reflect.Struct
IsStruct(type) == type \in DOMAIN StructTypes

\* the table once the init functions of the package and of its tests ran
InitialRegistry ==
    [fooBuilder |-> "Foo", UpdateBuilder |-> "updateData",
     SelectBuilder |-> "selectData",
     AnalyticsSelectBuilder |-> "analyticsSelectData",
     UpsertBuilder |-> "upsertData"]

Unlocked == [w |-> FALSE, r |-> 0]

\* GetBuilderStructType: "" stands for the nil reflect.Type; the read lock
\* is taken and released inside the call
GetBuilderStructType(reg, builderType) ==
    IF builderType \notin DOMAIN reg THEN "" ELSE reg[builderType]

\* the types whose underlying type is Builder, to which EmptyBuilder converts
ConvertibleToBuilder(type) ==
    type \in {"fooBuilder", "unregBuilder", "UpdateBuilder", "SelectBuilder",
              "AnalyticsSelectBuilder"}

\* BuilderMux.Lock and BuilderMux.Unlock
Lock(mx) == [mx EXCEPT !.w = TRUE]
Unlock(mx) == [mx EXCEPT !.w = FALSE]

\* sync.RWMutex: Lock waits until no goroutine holds the lock in either
\* mode, RLock waits until no goroutine holds it for writing
CanLock(mx) == ~mx.w /\ mx.r = 0

CanRLockAnytime(mx) == TRUE

CanRLock(mx) == ~mx.w

RLock(mx) == [mx EXCEPT !.r = mx.r + 1]
RUnlock(mx) == [mx EXCEPT !.r = mx.r - 1]

PutIfAbsent(reg, builderType, structType) ==
    [t \in DOMAIN reg \cup {builderType} |->
        IF t \in DOMAIN reg THEN reg[t] ELSE structType]

\* BuilderTypes[builderType] = structType
Put(reg, builderType, structType) ==
    [t \in DOMAIN reg \cup {builderType} |->
        IF t = builderType THEN structType ELSE reg[t]]

RegisterBuilderTypeNoDefer(reg, mx, builderType, structType) ==
    LET locked == Lock(mx)
        table == IF IsStruct(structType) THEN Put(reg, builderType, structType)
                 ELSE reg
        panic == ~IsStruct(structType) \/ ~ConvertibleToBuilder(builderType)
    IN [reg |-> table, mux |-> IF panic THEN locked ELSE Unlock(locked),
        panic |-> panic]

\* RegisterBuilderType: NumField panics unless the record type is a struct
\* type, before the table is written; Convert panics unless the builder
\* type is a Builder, after it is written; the deferred Unlock runs when
\* the call returns and when it panics
RegisterBuilderType(reg, mx, builderType, structType) ==
    LET locked == Lock(mx)
        table == IF IsStruct(structType) THEN Put(reg, builderType, structType)
                 ELSE reg
        panic == ~IsStruct(structType) \/ ~ConvertibleToBuilder(builderType)
    IN [reg |-> table, mux |-> Unlock(locked), panic |-> panic]

(***************************************************************************)
(* reflect.go and the Builder of unnamed/part_007: the generic accessor    *)
(* layer.  A builder is the address held in its builderMap field (Nil for  *)
(* the zero Builder, which Register returns).                              *)
(***************************************************************************)
getBuilderMap(b) == IF b = Nil THEN NewMap ELSE b

Set(th, lh, builder, name, v) ==
    LET r == MapSet(th, getBuilderMap(builder), name, v)
    IN [th |-> r.h, lh |-> lh, b |-> r.p, panic |-> FALSE]

Remove(th, lh, builder, name) ==
    LET r == MapDelete(th, getBuilderMap(builder), name)
    IN [th |-> r.h, lh |-> lh, b |-> r.p, panic |-> r.panic]

\* forEachReflect(vs, func(v) { list = list.Cons(v) }), and the same loop
\* written as a range statement in Extend
RECURSIVE consEach(_, _, _)
consEach(lh, list, elems) ==
    IF elems = <<>> THEN [h |-> lh, p |-> list]
    ELSE LET c == Cons(lh, list, Head(elems))
         IN consEach(c.h, c.p, Tail(elems))

\* vs is a value of type any: NilVal or a slice
ExtendValues(th, lh, builder, name, vs) ==
    IF vs = NilVal THEN [th |-> th, lh |-> lh, b |-> builder, panic |-> FALSE]
    ELSE LET look == MapLookup(th, getBuilderMap(builder), name)
             list == IF look.found /\ look.val.t = "list"
                     THEN look.val.v[1] ELSE NewList
             c == consEach(lh, list, vs.v)
         IN Set(th, c.h, builder, name, ListVal(c.p))

\* Append of builder.go (the name Append is the Sequences operator)
AppendValues(th, lh, builder, name, vs) == ExtendValues(th, lh, builder, name, SliceVal(vs))

\* vs is a slice: [isNil, elems]
Extend(th, lh, builder, name, vs) ==
    IF vs.isNil THEN [th |-> th, lh |-> lh, b |-> builder, panic |-> FALSE]
    ELSE LET look == MapLookup(th, getBuilderMap(builder), name)
             list == IF look.found /\ look.val.t = "list"
                     THEN look.val.v[1] ELSE NewList
             c == consEach(lh, list, vs.elems)
         IN Set(th, c.h, builder, name, ListVal(c.p))

listToSliceForward(lh, list) ==
    LET size == ListSize(lh, list)
        RECURSIVE Fill(_, _, _)
        Fill(slice, i, l) ==
            IF i >= size THEN slice
            ELSE Fill([slice EXCEPT ![i + 1] = ListHead(lh, l)], i + 1,
                      ListTail(lh, l))
    IN Fill([i \in 1..size |-> NilVal], 0, list)

\* slice index i of the code is position i + 1 of the tuple
listToSlice(lh, list) ==
    LET size == ListSize(lh, list)
        RECURSIVE Fill(_, _, _)
        Fill(slice, i, l) ==
            IF i < 0 THEN slice
            ELSE Fill([slice EXCEPT ![i + 1] = ListHead(lh, l)], i - 1,
                      ListTail(lh, l))
    IN Fill([i \in 1..size |-> NilVal], size - 1, list)

\* The element type Get takes from the registry changes the static type of
\* the slice it returns, not its elements.
Get(th, lh, builder, name) ==
    LET look == MapLookup(th, getBuilderMap(builder), name)
    IN IF ~look.found THEN [val |-> NilVal, found |-> FALSE]
       ELSE IF look.val.t = "list"
       THEN [val |-> SliceVal(listToSlice(lh, look.val.v[1])), found |-> TRUE]
       ELSE [val |-> look.val, found |-> TRUE]

\* tree.ForEach: the pairs handed to the callback, in the order of the calls
RECURSIVE ForEach(_, _)
ForEach(th, m) ==
    IF m = Nil \/ IsNil(m) THEN <<>>
    ELSE LET RECURSIVE Children(_)
             Children(i) ==
                 IF i > childCount THEN <<>>
                 ELSE LET t == th[m].children[i]
                      IN (IF t # Nil /\ t # nilTree THEN ForEach(th, t) ELSE <<>>)
                             \o Children(i + 1)
         IN <<[key |-> th[m].key, val |-> th[m].value]>> \o Children(1)

KeysFromOne(th, m) ==
    LET size == Size(th, m)
        visited == ForEach(th, m)
    IN [panic |-> Len(visited) > size - 1 /\ Len(visited) > 0,
        keys |-> [i \in 1..size |->
                    IF 1 < i /\ i <= Len(visited) + 1 THEN visited[i - 1].key
                    ELSE <<>>]]

\* tree.Keys: a slice of Size() strings, filled from index 0 in the order
\* of ForEach; an index past the end panics
Keys(th, m) ==
    LET size == Size(th, m)
        visited == ForEach(th, m)
    IN [panic |-> Len(visited) > size,
        keys |-> [i \in 1..size |->
                    IF i <= Len(visited) THEN visited[i].key ELSE <<>>]]

\* ast.IsExported: the name starts with an upper-case letter
IsExported(name) == name # <<>> /\ name[1] \in 65..90

\* reflect: the kinds and element types of the field types in use
IsSliceType(type) == type \in {"[]int", "[]N1qlizer", "[]string", "[]any"}

Elem(type) ==
    CASE type = "[]int" -> "int"
      [] type = "[]N1qlizer" -> "N1qlizer"
      [] type = "[]string" -> "string"
      [] type = "[]any" -> "any"

\* reflect.SliceOf
SliceOf(type) ==
    CASE type = "int" -> "[]int"
      [] type = "N1qlizer" -> "[]N1qlizer"
      [] type = "string" -> "[]string"
      [] type = "any" -> "[]any"

\* reflect.Zero of a field type: nil for interfaces, slices and maps
Zero(type) ==
    CASE type = "int" -> IntVal(0)
      [] type = "string" -> StrVal(<<>>)
      [] OTHER -> NilVal

\* whether reflect's Set accepts reflect.ValueOf(val) for a target of the
\* type: ValueOf(nil) is the zero Value, which Set rejects for every type
RECURSIVE Settable(_, _)
Settable(val, type) ==
    IF val.t = "nil" THEN FALSE
    ELSE IF type = "any" THEN TRUE
    ELSE IF IsSliceType(type)
    THEN val.t = "slice" /\ \A i \in 1..Len(val.v) : Settable(val.v[i], Elem(type))
    ELSE val.t = type

\* listToSlice for an array type: MakeSlice panics unless the type is a
\* slice type, Index(i).Set unless the element fits
listToSliceOf(lh, list, arrayType) ==
    IF ~IsSliceType(arrayType) THEN [val |-> NilVal, panic |-> TRUE]
    ELSE LET slice == listToSlice(lh, list)
         IN IF \A i \in 1..Len(slice) : Settable(slice[i], Elem(arrayType))
            THEN [val |-> SliceVal(slice), panic |-> FALSE]
            ELSE [val |-> NilVal, panic |-> TRUE]

\* NewBuilderStruct: isNil when the shape is not registered, otherwise the
\* zero struct, a function from field names to values
NewBuilderStruct(reg, builderType) ==
    LET structType == GetBuilderStructType(reg, builderType)
    IN IF structType = "" THEN [isNil |-> TRUE, panic |-> FALSE, s |-> <<>>]
       ELSE [isNil |-> FALSE, panic |-> FALSE,
             s |-> [f \in DOMAIN StructTypes[structType] |->
                       Zero(StructTypes[structType][f])]]

scanStruct(th, lh, builder, structVal, fields) ==
    LET pairs == ForEach(th, getBuilderMap(builder))
        RECURSIVE Scan(_, _)
        Scan(k, sv) ==
            IF k > Len(pairs) \/ sv.panic THEN sv
            ELSE LET name == pairs[k].key
                     val == pairs[k].val
                 IN IF ~(IsExported(name) /\ name \in DOMAIN fields)
                    THEN Scan(k + 1, sv)
                    ELSE LET conv == IF val.t = "list"
                                     THEN listToSliceOf(lh, val.v[1], fields[name])
                                     ELSE [val |-> val, panic |-> FALSE]
                         IN IF conv.panic \/ ~Settable(conv.val, fields[name])
                            THEN [sv EXCEPT !.panic = TRUE]
                            ELSE Scan(k + 1, [sv EXCEPT !.s[name] = conv.val])
    IN Scan(1, structVal)

GetStruct(th, lh, reg, builderType, builder) ==
    LET structVal == NewBuilderStruct(reg, builderType)
    IN IF structVal.isNil THEN structVal
       ELSE scanStruct(th, lh, builder, structVal,
                       StructTypes[GetBuilderStructType(reg, builderType)])

\* getComponentType: "" stands for the nil reflect.Type
getComponentType(reg, builderType, name) ==
    LET structType == GetBuilderStructType(reg, builderType)
    IN IF structType = "" THEN ""
       ELSE IF name \notin DOMAIN StructTypes[structType] THEN ""
       ELSE IF IsSliceType(StructTypes[structType][name])
       THEN Elem(StructTypes[structType][name])
       ELSE ""

\* Get for a builder of a given shape: a list becomes a slice of the
\* registered element type, or of any
GetOf(th, lh, reg, builderType, builder, name) ==
    LET look == MapLookup(th, getBuilderMap(builder), name)
    IN IF ~look.found THEN [val |-> NilVal, found |-> FALSE, panic |-> FALSE]
       ELSE IF look.val.t = "list"
       THEN LET ct == getComponentType(reg, builderType, name)
                r == listToSliceOf(lh, look.val.v[1],
                                   IF ct # "" THEN SliceOf(ct) ELSE "[]any")
            IN [val |-> r.val, found |-> ~r.panic, panic |-> r.panic]
       ELSE [val |-> look.val, found |-> TRUE, panic |-> FALSE]

\* GetMap: the map as a function from the names visited to their values
GetMap(th, lh, reg, builderType, builder) ==
    LET pairs == ForEach(th, getBuilderMap(builder))
        structType == GetBuilderStructType(reg, builderType)
        arrayType(name) ==
            IF structType # "" /\ name \in DOMAIN StructTypes[structType]
               /\ IsSliceType(StructTypes[structType][name])
            THEN StructTypes[structType][name]
            ELSE "[]any"
        conv(k) == IF pairs[k].val.t = "list"
                   THEN listToSliceOf(lh, pairs[k].val.v[1], arrayType(pairs[k].key))
                   ELSE [val |-> pairs[k].val, panic |-> FALSE]
        names == {pairs[k].key : k \in 1..Len(pairs)}
    IN [panic |-> \E k \in 1..Len(pairs) : conv(k).panic,
        m |-> [n \in names |->
                  LET k == CHOOSE j \in 1..Len(pairs) :
                               /\ pairs[j].key = n
                               /\ \A i \in (j + 1)..Len(pairs) : pairs[i].key # n
                  IN conv(k).val]]

(***************************************************************************)
(* n1qlizer.go and the SELECT builder of json.go: rendering.  A fragment   *)
(* (N1qlizer) is a record tagged by kind; a plain argument has kind "val". *)
(* A rendering is [sql, args, err], err = "" standing for a nil error.     *)
(***************************************************************************)
Val(n) == [kind |-> "val", v |-> n]
Expr(sql, args) == [kind |-> "expr", sql |-> sql, args |-> args]
newPart(sql) == Expr(sql, <<>>)
Alias(expr, alias) == [kind |-> "alias", expr |-> expr, alias |-> alias]

IsN1qlizer(arg) == arg.kind # "val"

ErrArity == "expr: not enough arguments for placeholders"
ErrNoColumns == "select statements must have at least one result column"

Failed(err) == [sql |-> <<>>, args |-> <<>>, err |-> err]

\* And and Or are slices of fragments
And(ex) == [kind |-> "and", ex |-> ex]
Or(ex) == [kind |-> "or", ex |-> ex]

\* err.Error() as text
ErrorText(err) ==
    CASE err = ErrArity ->
           <<"e", "x", "p", "r", ":", " ", "n", "o", "t", " ", "e", "n", "o", "u", "g", "h", " ", "a", "r", "g", "u", "m", "e", "n", "t", "s", " ", "f", "o", "r", " ", "p", "l", "a", "c", "e", "h", "o", "l", "d", "e", "r", "s">>
      [] err = ErrNoColumns ->
           <<"s", "e", "l", "e", "c", "t", " ", "s", "t", "a", "t", "e", "m", "e", "n", "t", "s", " ", "m", "u", "s", "t", " ", "h", "a", "v", "e", " ", "a", "t", " ", "l", "e", "a", "s", "t", " ", "o", "n", "e", " ", "r", "e", "s", "u", "l", "t", " ", "c", "o", "l", "u", "m", "n">>

tERROR == <<"E", "R", "R", "O", "R", ":", " ">>
tOpAND == <<"A", "N", "D">>
tOpOR == <<"O", "R">>
tOR == <<" ", "O", "R", " ">>

\* strings.Count(s, c) for a one-character c
RECURSIVE Count(_, _)
Count(s, c) ==
    IF s = <<>> THEN 0
    ELSE (IF Head(s) = c THEN 1 ELSE 0) + Count(Tail(s), c)

\* strings.Index(s, c) for a one-character c: 0-based, -1 when absent
Index(s, c) ==
    IF \E i \in 1..Len(s) : s[i] = c
    THEN (CHOOSE i \in 1..Len(s) : s[i] = c /\ \A j \in 1..(i - 1) : s[j] # c) - 1
    ELSE -1

\* s[from:] and s[:to] with the code's 0-based offsets
SliceFrom(s, from) == SubSeq(s, from + 1, Len(s))
SliceUpto(s, to) == SubSeq(s, 1, to)

RECURSIVE Join(_, _)
Join(ss, sep) ==
    IF ss = <<>> THEN <<>>
    ELSE IF Len(ss) = 1 THEN ss[1]
    ELSE ss[1] \o sep \o Join(Tail(ss), sep)

Digit(d) == <<"0", "1", "2", "3", "4", "5", "6", "7", "8", "9">>[d + 1]

\* fmt's %d of a non-negative int
RECURSIVE Itoa(_)
Itoa(n) == IF n < 10 THEN <<Digit(n)>> ELSE Itoa(n \div 10) \o <<Digit(n % 10)>>

replaceNoSkip(sql, prefix) ==
    LET RECURSIVE Loop(_, _, _)
        Loop(rest, buf, i) ==
            LET p == Index(rest, "?")
            IN IF p = -1 THEN buf \o rest
               ELSE IF Len(SliceFrom(rest, p)) > 1 /\ SubSeq(rest, p + 1, p + 2) = <<"?", "?">>
               THEN Loop(SliceFrom(rest, p + 1), buf \o SliceUpto(rest, p) \o <<"?">>, i)
               ELSE Loop(SliceFrom(rest, p + 1),
                         buf \o SliceUpto(rest, p) \o prefix \o Itoa(i + 1), i + 1)
    IN [sql |-> Loop(sql, <<>>, 0), err |-> ""]

replacePositionalPlaceholders(sql, prefix) ==
    LET RECURSIVE Loop(_, _, _)
        Loop(rest, buf, i) ==
            LET p == Index(rest, "?")
            IN IF p = -1 THEN buf \o rest
               ELSE IF Len(SliceFrom(rest, p)) > 1 /\ SubSeq(rest, p + 1, p + 2) = <<"?", "?">>
               THEN LET buf2 == buf \o SliceUpto(rest, p) \o <<"?">>
                    IN IF Len(SliceFrom(rest, p)) = 1 THEN buf2 \o rest
                       ELSE Loop(SliceFrom(rest, p + 2), buf2, i)
               ELSE Loop(SliceFrom(rest, p + 1),
                         buf \o SliceUpto(rest, p) \o prefix \o Itoa(i + 1), i + 1)
    IN [sql |-> Loop(sql, <<>>, 0), err |-> ""]

\* PlaceholderFormat.ReplacePlaceholders for Question and Dollar
ReplacePlaceholders(format, sql) ==
    IF format = "Dollar" THEN replacePositionalPlaceholders(sql, <<"$">>)
    ELSE [sql |-> sql, err |-> ""]

\* expr.ToN1ql: the arity check
tooFewArgsLax(e) == Count(e.sql, "?") > Len(e.args) + 1

tooFewArgs(e) == Count(e.sql, "?") > Len(e.args)

\* expr.ToN1ql: no argument is a fragment
simple(e) == \A k \in 1..Len(e.args) : ~IsN1qlizer(e.args[k])

spliceBefore(newArgs, nestedArgs) == nestedArgs \o newArgs

\* newArgs = append(newArgs, nestedArgs...)
splice(newArgs, nestedArgs) == newArgs \o nestedArgs

tSELECT == <<"S", "E", "L", "E", "C", "T", " ">>
tFROM == <<" ", "F", "R", "O", "M", " ">>
tUSEKEYS == <<" ", "U", "S", "E", " ", "K", "E", "Y", "S", " ">>
tWHERE == <<" ", "W", "H", "E", "R", "E", " ">>
tAND == <<" ", "A", "N", "D", " ">>
tGROUPBY == <<" ", "G", "R", "O", "U", "P", " ", "B", "Y", " ">>
tHAVING == <<" ", "H", "A", "V", "I", "N", "G", " ">>
tORDERBY == <<" ", "O", "R", "D", "E", "R", " ", "B", "Y", " ">>
tLIMIT == <<" ", "L", "I", "M", "I", "T", " ">>
tOFFSET == <<" ", "O", "F", "F", "S", "E", "T", " ">>
tComma == <<",", " ">>
tSpace == <<" ">>
tAS == <<")", " ", "A", "S", " ">>

NoFrom == [kind |-> "nil"]

RECURSIVE ToN1ql(_)
RECURSIVE buildClauses(_, _, _, _)
RECURSIVE selectData_toN1qlRaw(_)

\* the substitution loop of expr.ToN1ql, from position i (0-based)
RECURSIVE exprLoop(_, _, _, _, _)
\* the turn of the loop for an argument that is a fragment: nested is what
\* it rendered to
exprNested(e, i, argPos, buf, newArgs, nested) ==
    IF nested.err # "" THEN Failed(nested.err)
    ELSE exprLoop(e, i + 1, argPos + 1, buf \o nested.sql,
                  splice(newArgs, nested.args))

exprLoop(e, i, argPos, buf, newArgs) ==
    IF i >= Len(e.sql) THEN [sql |-> buf, args |-> newArgs, err |-> ""]
    ELSE IF e.sql[i + 1] # "?"
    THEN exprLoop(e, i + 1, argPos, buf \o <<e.sql[i + 1]>>, newArgs)
    ELSE IF argPos >= Len(e.args) THEN Failed(ErrArity)
    ELSE LET arg == e.args[argPos + 1]
         IN IF IsN1qlizer(arg)
            THEN exprNested(e, i, argPos, buf, newArgs, ToN1ql(arg))
            ELSE exprLoop(e, i + 1, argPos + 1, buf \o <<"?">>,
                          splice(newArgs, <<arg>>))

expr_ToN1ql(e) ==
    IF tooFewArgs(e) THEN Failed(ErrArity)
    ELSE IF simple(e) THEN [sql |-> e.sql, args |-> e.args, err |-> ""]
    ELSE exprLoop(e, 0, 0, <<>>, <<>>)

\* r is what the aliased expression rendered to
aliased(r, alias) ==
    IF r.err # "" THEN Failed(r.err)
    ELSE [sql |-> <<"(">> \o r.sql \o tAS \o alias, args |-> r.args, err |-> ""]

aliasExpr_ToN1ql(e) == aliased(ToN1ql(e.expr), e.alias)

\* one turn of the loop of andOrToN1ql: r is what ex[i] rendered to
andOrPart(acc, r) ==
    IF r.err # "" THEN [acc EXCEPT !.err = r.err]
    ELSE IF r.sql # <<>>
    THEN [parts |-> Append(acc.parts, r.sql), args |-> acc.args \o r.args, err |-> ""]
    ELSE acc

\* andOrToN1ql: sep is the operator, joined between blanks
andOrToN1ql(ex, sep) ==
    IF Len(ex) = 0 THEN [sql |-> <<>>, args |-> <<>>, err |-> ""]
    ELSE IF Len(ex) = 1 THEN ToN1ql(ex[1])
    ELSE LET RECURSIVE Loop(_, _)
             \* acc holds parts and args, and the error that ended the loop
             Loop(i, acc) ==
                 IF acc.err # "" THEN Failed(acc.err)
                 ELSE IF i > Len(ex)
                 THEN IF Len(acc.parts) = 0
                      THEN [sql |-> <<>>, args |-> acc.args, err |-> ""]
                      ELSE [sql |-> <<"(">>
                                        \o Join(acc.parts, <<" ">> \o sep \o <<" ">>)
                                        \o <<")">>,
                            args |-> acc.args, err |-> ""]
                 ELSE Loop(i + 1, andOrPart(acc, ToN1ql(ex[i])))
         IN Loop(1, [parts |-> <<>>, args |-> <<>>, err |-> ""])

\* whether the text of part i is preceded by the separator
writesSep(i, sep) == i > 0 /\ Len(sep) > 0

\* one turn of the loop of buildClauses: part is what parts[i] rendered to
writePart(acc, i, sep, part) ==
    IF part.err # "" THEN [sql |-> acc.sql, args |-> <<>>, err |-> part.err]
    ELSE IF Len(part.sql) > 0
    THEN [sql |-> (IF writesSep(i, sep) THEN acc.sql \o sep ELSE acc.sql)
                      \o part.sql,
          args |-> acc.args \o part.args, err |-> ""]
    ELSE acc

\* buildClauses: sql is the buffer written to; the result holds the buffer
\* as left behind
buildClauses(parts, sql, sep, args) ==
    LET RECURSIVE Loop(_, _)
        \* acc is the buffer and the arguments, and the error that ended the
        \* loop
        Loop(i, acc) ==
            IF acc.err # "" \/ i >= Len(parts) THEN acc
            ELSE Loop(i + 1, writePart(acc, i, sep, ToN1ql(parts[i + 1])))
    IN Loop(0, [sql |-> sql, args |-> args, err |-> ""])

\* b is what buildClauses returned for the parts of a clause
closed(b, trail) ==
    IF b.err # "" THEN Failed(b.err)
    ELSE [sql |-> b.sql \o trail, args |-> b.args, err |-> ""]

\* one clause of toN1qlRaw: when present, write lead, then the parts, then
\* trail; r is the rendering so far
clause(r, present, lead, parts, sep, trail) ==
    IF r.err # "" \/ ~present THEN r
    ELSE closed(buildClauses(parts, r.sql \o lead, sep, r.args), trail)

\* a clause written as plain text
plain(r, present, text) ==
    IF r.err # "" \/ ~present THEN r ELSE [r EXCEPT !.sql = r.sql \o text]

\* the clauses of a statement, in the order toN1qlRaw writes them: the
\* parts of a clause between lead and trail, or a plain text
Parts(present, lead, parts, sep, trail) ==
    [present |-> present, lead |-> lead, parts |-> parts, sep |-> sep,
     trail |-> trail, isText |-> FALSE]

PlainText(present, text) ==
    [present |-> present, lead |-> text, parts |-> <<>>, sep |-> <<>>,
     trail |-> <<>>, isText |-> TRUE]

\* r is the rendering so far
RECURSIVE written(_, _)
written(r, clauses) ==
    IF clauses = <<>> THEN r
    ELSE written(IF Head(clauses).isText
                 THEN plain(r, Head(clauses).present, Head(clauses).lead)
                 ELSE clause(r, Head(clauses).present, Head(clauses).lead,
                             Head(clauses).parts, Head(clauses).sep,
                             Head(clauses).trail),
                 Tail(clauses))

selectData_toN1qlRaw(d) ==
    IF Len(d.Columns) = 0 THEN Failed(ErrNoColumns)
    ELSE written(
           [sql |-> <<>>, args |-> <<>>, err |-> ""],
           <<Parts(Len(d.Prefixes) > 0, <<>>, d.Prefixes, tSpace, tSpace),
             PlainText(TRUE, tSELECT),
             PlainText(Len(d.Options) > 0, Join(d.Options, tSpace) \o tSpace),
             Parts(Len(d.Columns) > 0, <<>>, d.Columns, tComma, <<>>),
             Parts(d.From # NoFrom, tFROM, <<d.From>>, <<>>, <<>>),
             PlainText(d.From # NoFrom /\ d.UseKeys # <<>>, tUSEKEYS \o d.UseKeys),
             Parts(Len(d.Joins) > 0, tSpace, d.Joins, tSpace, <<>>),
             Parts(Len(d.WhereParts) > 0, tWHERE, d.WhereParts, tAND, <<>>),
             PlainText(Len(d.GroupBys) > 0, tGROUPBY \o Join(d.GroupBys, tComma)),
             Parts(Len(d.HavingParts) > 0, tHAVING, d.HavingParts, tAND, <<>>),
             Parts(Len(d.OrderByParts) > 0, tORDERBY, d.OrderByParts, tComma, <<>>),
             PlainText(Len(d.Limit) > 0, tLIMIT \o d.Limit),
             PlainText(Len(d.Offset) > 0, tOFFSET \o d.Offset),
             Parts(Len(d.Suffixes) > 0, tSpace, d.Suffixes, tSpace, <<>>)>>)

\* raw is what toN1qlRaw returned; f the text with the placeholders replaced
replaced(raw, f) == [sql |-> f.sql, args |-> raw.args, err |-> f.err]

finalized(format, raw) ==
    IF raw.err # "" THEN raw
    ELSE replaced(raw, ReplacePlaceholders(format, raw.sql))

selectData_ToN1ql(d) == finalized(d.PlaceholderFormat, selectData_toN1qlRaw(d))

\* SelectBuilder.ToN1ql, the builder given as the selectData that GetStruct
\* reads from it
SelectBuilder_ToN1ql(b) == selectData_ToN1ql(b.data)

ToN1ql(f) ==
    CASE f.kind = "expr" -> expr_ToN1ql(f)
      [] f.kind = "alias" -> aliasExpr_ToN1ql(f)
      [] f.kind = "select" -> SelectBuilder_ToN1ql(f)
      [] f.kind = "and" -> andOrToN1ql(f.ex, tOpAND)
      [] f.kind = "or" -> andOrToN1ql(f.ex, tOpOR)

\* one turn of the loop of a junction: r is what expressions[i] rendered to
ftsOperand(acc, r) ==
    IF r.err # "" THEN [acc EXCEPT !.err = r.err]
    ELSE [queries |-> Append(acc.queries, r.sql), args |-> acc.args \o r.args,
          err |-> ""]

\* FTSConjunction and FTSDisjunction render their operands when called and
\* return an expr; sep is " AND " or " OR "
ftsJunction(expressions, sep) ==
    IF Len(expressions) = 0 THEN Expr(<<>>, <<>>)
    ELSE IF Len(expressions) = 1 THEN expressions[1]
    ELSE LET RECURSIVE Loop(_, _)
             \* acc holds queries and args, and the error that ended the loop
             Loop(i, acc) ==
                 IF acc.err # "" THEN Expr(tERROR \o ErrorText(acc.err), <<>>)
                 ELSE IF i > Len(expressions)
                 THEN Expr(<<"(">> \o Join(acc.queries, sep) \o <<")">>, acc.args)
                 ELSE Loop(i + 1, ftsOperand(acc, ToN1ql(expressions[i])))
         IN Loop(1, [queries |-> <<>>, args |-> <<>>, err |-> ""])

FTSConjunction(expressions) == ftsJunction(expressions, tAND)

FTSDisjunction(expressions) == ftsJunction(expressions, tOR)

(***************************************************************************)
(* The statement builders of unnamed/part_009 (UPDATE) and of              *)
(* unnamed/part_005 (analytics SELECT).  A Go map is a reference: a value  *)
(* MapVal(a) names the map at address a of the heap gm, a function from    *)
(* the keys it holds (text) to values of type any (Val or a fragment).     *)
(***************************************************************************)
ErrNoTable == "update statements must specify a table"
ErrNoSetClause == "update statements must have at least one Set clause"

tUPDATE == <<"U", "P", "D", "A", "T", "E", " ">>
tSET == <<" ", "S", "E", "T", " ">>
tEq == <<" ", "=", " ">>
tLET == <<" ", "L", "E", "T", " ">>
tWINDOW == <<" ", "W", "I", "N", "D", "O", "W", " ">>
tMarker == <<"?">>

Question == "Question"
Dollar == "Dollar"

\* the order of sort.Strings on the letters in use
Ord(ch) == CASE ch = "a" -> 97 [] ch = "b" -> 98 [] ch = "c" -> 99 [] ch = "v" -> 118

RECURSIVE LessText(_, _)
LessText(x, y) ==
    IF y = <<>> THEN FALSE
    ELSE IF x = <<>> THEN TRUE
    ELSE IF Ord(Head(x)) # Ord(Head(y)) THEN Ord(Head(x)) < Ord(Head(y))
    ELSE LessText(Tail(x), Tail(y))

\* sort.Strings of the keys of a map
RECURSIVE SortedKeys(_)
SortedKeys(S) ==
    IF S = {} THEN <<>>
    ELSE LET least == CHOOSE x \in S : \A y \in S \ {x} : LessText(x, y)
         IN <<least>> \o SortedKeys(S \ {least})

\* len of a map-typed field: 0 for the nil map
MapLen(gm, val) == IF val.t = "nil" THEN 0 ELSE Cardinality(DOMAIN gm[val.v[1]])

\* a []N1qlizer field as the sequence of its fragments, a string field as
\* its text
Frags(val) == IF val.t = "nil" THEN <<>> ELSE [i \in 1..Len(val.v) |-> val.v[i].v[1]]

Text(val) == val.v

\* a []string field as the sequence of its texts
Texts(val) == IF val.t = "nil" THEN <<>> ELSE [i \in 1..Len(val.v) |-> val.v[i].v]

\* the assignment of a fragment: v is what the fragment rendered to
assigned(acc, lead, v) ==
    IF v.err # "" THEN Failed(v.err)
    ELSE [sql |-> lead \o v.sql, args |-> acc.args \o v.args, err |-> ""]

\* the "k = value" pairs written for a map-typed clause, keys sorted; a
\* fragment is rendered, any other value becomes a marker and an argument
assignments(gm, val, r) ==
    LET m == gm[val.v[1]]
        keys == SortedKeys(DOMAIN m)
        RECURSIVE Loop(_, _)
        Loop(i, acc) ==
            IF i > Len(keys) \/ acc.err # "" THEN acc
            ELSE LET value == m[keys[i]]
                     lead == acc.sql \o (IF i > 1 THEN tComma ELSE <<>>)
                                 \o keys[i] \o tEq
                 IN IF IsN1qlizer(value)
                    THEN Loop(i + 1, assigned(acc, lead, ToN1ql(value)))
                    ELSE Loop(i + 1, [sql |-> lead \o tMarker,
                                      args |-> Append(acc.args, value),
                                      err |-> ""])
    IN Loop(1, r)

\* the SET clause of an UPDATE and the LET clause of an analytics SELECT,
\* written after r
setClause(gm, val, r) == IF r.err # "" THEN r ELSE assignments(gm, val, r)

letClause(gm, val, r) ==
    IF r.err # "" \/ MapLen(gm, val) = 0 THEN r
    ELSE assignments(gm, val, [r EXCEPT !.sql = r.sql \o tLET])

\* d is the struct GetStruct returned, a function from field names
updateData_toN1qlRaw(gm, d) ==
    IF Len(Text(d[KeyTable])) = 0 THEN Failed(ErrNoTable)
    ELSE IF MapLen(gm, d[KeySetClauses]) = 0 THEN Failed(ErrNoSetClause)
    ELSE written(
           setClause(gm, d[KeySetClauses],
             written(
               [sql |-> <<>>, args |-> <<>>, err |-> ""],
               <<Parts(Len(Frags(d[KeyPrefixes])) > 0, <<>>, Frags(d[KeyPrefixes]),
                       tSpace, tSpace),
                 PlainText(TRUE, tUPDATE \o Text(d[KeyTable])),
                 PlainText(Text(d[KeyUseKeys]) # <<>>, tUSEKEYS \o Text(d[KeyUseKeys])),
                 PlainText(TRUE, tSET)>>)),
           <<Parts(Len(Frags(d[KeyWhereParts])) > 0, tWHERE, Frags(d[KeyWhereParts]),
                   tAND, <<>>),
             PlainText(Len(Text(d[KeyLimit])) > 0, tLIMIT \o Text(d[KeyLimit])),
             PlainText(Len(Text(d[KeyOffset])) > 0, tOFFSET \o Text(d[KeyOffset])),
             Parts(Len(Frags(d[KeySuffixes])) > 0, tSpace, Frags(d[KeySuffixes]),
                   tSpace, <<>>)>>)

\* the call d.PlaceholderFormat.ReplacePlaceholders(sqlStr) that ends every
\* ToN1ql of a statement: a nil PlaceholderFormat makes the call panic
finalize(d, raw) ==
    IF raw.err # "" THEN [sql |-> raw.sql, args |-> raw.args, err |-> raw.err,
                          panic |-> FALSE]
    ELSE IF d[KeyPlaceholderFormat].t = "nil"
    THEN [sql |-> <<>>, args |-> <<>>, err |-> "", panic |-> TRUE]
    ELSE replaced(raw, ReplacePlaceholders(d[KeyPlaceholderFormat].v[1], raw.sql))
             @@ [panic |-> FALSE]

updateData_ToN1ql(gm, d) == finalize(d, updateData_toN1qlRaw(gm, d))

\* the selectData that toN1qlRaw reads, from the struct GetStruct returned
selectDataOf(d) ==
    [PlaceholderFormat |-> d[KeyPlaceholderFormat],
     Prefixes |-> Frags(d[KeyPrefixes]),
     Options |-> Texts(d[KeyOptions]),
     Columns |-> Frags(d[KeyColumns]),
     From |-> IF d[KeyFrom].t = "nil" THEN NoFrom ELSE d[KeyFrom].v[1],
     Joins |-> Frags(d[KeyJoins]),
     WhereParts |-> Frags(d[KeyWhereParts]),
     GroupBys |-> Texts(d[KeyGroupBys]),
     HavingParts |-> Frags(d[KeyHavingParts]),
     OrderByParts |-> Frags(d[KeyOrderByParts]),
     Limit |-> Text(d[KeyLimit]),
     Offset |-> Text(d[KeyOffset]),
     Suffixes |-> Frags(d[KeySuffixes]),
     UseKeys |-> Text(d[KeyUseKeys])]

analyticsSelectData_toN1qlRaw(gm, d) ==
    IF Len(Frags(d[KeyColumns])) = 0 THEN Failed(ErrNoColumns)
    ELSE written(
           letClause(gm, d[KeyLetsClause],
             written(
               [sql |-> <<>>, args |-> <<>>, err |-> ""],
               <<Parts(Len(Frags(d[KeyPrefixes])) > 0, <<>>, Frags(d[KeyPrefixes]),
                       tSpace, tSpace),
                 PlainText(TRUE, tSELECT),
                 PlainText(Len(Texts(d[KeyOptions])) > 0,
                           Join(Texts(d[KeyOptions]), tSpace) \o tSpace),
                 Parts(TRUE, <<>>, Frags(d[KeyColumns]), tComma, <<>>)>>)),
           <<Parts(d[KeyFrom].t # "nil", tFROM,
                   IF d[KeyFrom].t # "nil" THEN <<d[KeyFrom].v[1]>> ELSE <<>>,
                   <<>>, <<>>),
             Parts(Len(Frags(d[KeyJoins])) > 0, tSpace, Frags(d[KeyJoins]), tSpace,
                   <<>>),
             Parts(Len(Frags(d[KeyWhereParts])) > 0, tWHERE, Frags(d[KeyWhereParts]),
                   tAND, <<>>),
             PlainText(Len(Texts(d[KeyGroupBys])) > 0,
                       tGROUPBY \o Join(Texts(d[KeyGroupBys]), tComma)),
             Parts(Len(Frags(d[KeyHavingParts])) > 0, tHAVING,
                   Frags(d[KeyHavingParts]), tAND, <<>>),
             Parts(Len(Frags(d[KeyOrderByParts])) > 0, tORDERBY,
                   Frags(d[KeyOrderByParts]), tComma, <<>>),
             PlainText(Len(Text(d[KeyWindow])) > 0, tWINDOW \o Text(d[KeyWindow])),
             PlainText(Len(Text(d[KeyLimit])) > 0, tLIMIT \o Text(d[KeyLimit])),
             PlainText(Len(Text(d[KeyOffset])) > 0, tOFFSET \o Text(d[KeyOffset])),
             Parts(Len(Frags(d[KeySuffixes])) > 0, tSpace, Frags(d[KeySuffixes]),
                   tSpace, <<>>)>>)

analyticsSelectData_ToN1ql(gm, d) == finalize(d, analyticsSelectData_toN1qlRaw(gm, d))

\* the ToN1ql of a statement builder: GetStruct(b).(data).ToN1ql(); the
\* type assertion panics on a nil struct
dataToN1ql(gm, builderType, data) ==
    IF data.isNil \/ data.panic
    THEN [sql |-> <<>>, args |-> <<>>, err |-> "", panic |-> TRUE]
    ELSE CASE builderType = "UpdateBuilder" -> updateData_ToN1ql(gm, data.s)
           [] builderType = "SelectBuilder" ->
                finalize(data.s, selectData_toN1qlRaw(selectDataOf(data.s)))
           [] builderType = "AnalyticsSelectBuilder" ->
                analyticsSelectData_ToN1ql(gm, data.s)

StatementToN1ql(th, lh, gm, reg, builderType, builder) ==
    dataToN1ql(gm, builderType, GetStruct(th, lh, reg, builderType, builder))

\* the shared body of UpdateBuilder.Set, UpdateBuilder.SetMap and
\* AnalyticsSelectBuilder.Let: the map read from the struct (a new one if
\* the field is nil) is written in place and stored under the field
\* data is the struct read from the builder
storeInMapOf(th, lh, gm, builder, field, entries, data) ==
    IF data.isNil \/ data.panic
    THEN [th |-> th, lh |-> lh, gm |-> gm, b |-> builder, panic |-> TRUE]
    ELSE LET fresh == data.s[field].t = "nil"
             gm1 == IF fresh THEN Append(gm, <<>>) ELSE gm
             a == IF fresh THEN Len(gm) + 1 ELSE data.s[field].v[1]
             gm2 == [gm1 EXCEPT ![a] = entries @@ gm1[a]]
         IN [gm |-> gm2] @@ Set(th, lh, builder, field, MapVal(a))

storeInMap(th, lh, gm, reg, builderType, builder, field, entries) ==
    storeInMapOf(th, lh, gm, builder, field, entries,
                 GetStruct(th, lh, reg, builderType, builder))

UpdateBuilder_Set(th, lh, gm, reg, b, column, value) ==
    storeInMap(th, lh, gm, reg, "UpdateBuilder", b, KeySetClauses, column :> value)

UpdateBuilder_SetMap(th, lh, gm, reg, b, clauses) ==
    storeInMap(th, lh, gm, reg, "UpdateBuilder", b, KeySetClauses, clauses)

\* Let wraps a value that is no fragment into Expr("?", value)
AnalyticsSelectBuilder_Let(th, lh, gm, reg, b, variable, value) ==
    storeInMap(th, lh, gm, reg, "AnalyticsSelectBuilder", b, KeyLetsClause,
               variable :> (IF IsN1qlizer(value) THEN value
                            ELSE Expr(tMarker, <<value>>)))

\* StatementBuilder: EmptyBuilder with the Question format set
StatementBuilder(th, lh) ==
    Set(th, lh, NewMap, KeyPlaceholderFormat, FormatVal(Question))

\* Update(table)
Table(sb, table) == Set(sb.th, sb.lh, sb.b, KeyTable, StrVal(table))

Update(th, lh, table) == Table(StatementBuilder(th, lh), table)

\* the Columns method of the select builders
Columns(th, lh, b, columns) ==
    Set(th, lh, b, KeyColumns,
        SliceVal([i \in 1..Len(columns) |-> FragVal(newPart(columns[i]))]))

ColumnsOn(sb, columns) == Columns(sb.th, sb.lh, sb.b, columns)

\* the Column method of the select builders
Column(th, lh, b, column, args) ==
    AppendValues(th, lh, b, KeyColumns, <<FragVal(Expr(column, args))>>)

\* Select(columns...)
Select(th, lh, columns) == ColumnsOn(StatementBuilder(th, lh), columns)

\* AnalyticsSelect(columns...)
AnalyticsSelect(th, lh, columns) == ColumnsOn(StatementBuilder(th, lh), columns)

\* Where of the statement builders
Where(th, lh, b, pred, args) ==
    AppendValues(th, lh, b, KeyWhereParts, <<FragVal(Expr(pred, args))>>)

(***************************************************************************)
(* The UPSERT builder (src/upsert.go).  Its rows are a Go slice of slices: *)
(* a slice value is the address of a backing array and a length, and its   *)
(* capacity is the length of that array.  arrs is the heap of the backing  *)
(* arrays; address 0 is the array of the empty literal.                    *)
(***************************************************************************)
RowsVal(a, n) == [t |-> "[][]any", v |-> <<a, n>>]

\* [][]any{}
EmptyRows == RowsVal(0, 0)

capOf(arrs, s) == IF s.v[1] = 0 THEN 0 ELSE Len(arrs[s.v[1]])

\* the rows a slice value holds; none for the nil slice
Rows(arrs, val) ==
    IF val.t = "nil" THEN <<>>
    ELSE [i \in 1..val.v[2] |-> arrs[val.v[1]][i]]

\* the size classes of the allocator up to 512 bytes and the size of a
\* slice header, the element of a [][]any
SizeClasses ==
    {8, 16, 24, 32, 48, 64, 80, 96, 112, 128, 144, 160, 176, 192, 208, 224,
     240, 256, 288, 320, 352, 384, 416, 448, 480, 512}

ElemSize == 24

roundupsize(size) ==
    CHOOSE c \in SizeClasses :
        c >= size /\ \A d \in SizeClasses : d >= size => c <= d

\* the capacity append grows a slice of capacity oldCap to for newLen
\* elements (below the threshold of 256 elements): twice the old one, or
\* newLen where that is more, rounded up to what the allocator hands out
nextslicecap(newLen, oldCap) ==
    roundupsize((IF newLen > 2 * oldCap THEN newLen ELSE 2 * oldCap) * ElemSize)
        \div ElemSize

\* append(s, row): the row is written into the backing array of s where it
\* has room, into a new array holding a copy of the elements otherwise
append(arrs, s, row) ==
    LET a == s.v[1]
        n == s.v[2]
    IN IF n < capOf(arrs, s)
       THEN [arrs |-> [arrs EXCEPT ![a][n + 1] = row], s |-> RowsVal(a, n + 1)]
       ELSE [arrs |-> Append(arrs,
                        [i \in 1..nextslicecap(n + 1, capOf(arrs, s)) |->
                            IF i <= n THEN arrs[a][i]
                            ELSE IF i = n + 1 THEN row ELSE <<>>]),
             s |-> RowsVal(Len(arrs) + 1, n + 1)]

\* Into and, on StatementBuilder, Upsert(into)
Into(sb, into) == Set(sb.th, sb.lh, sb.b, KeyInto, StrVal(into))

Upsert(th, lh, into) == Into(StatementBuilder(th, lh), into)

\* UpsertBuilder.Columns
UpsertBuilder_Columns(th, lh, b, columns) ==
    Set(th, lh, b, KeyColumns,
        SliceVal([i \in 1..Len(columns) |-> StrVal(columns[i])]))

\* UpsertBuilder.Document: the value is stored as it is given
Document(th, lh, b, key, value) ==
    LET keyed == Set(th, lh, b, KeyKey, StrVal(key))
    IN Set(keyed.th, keyed.lh, keyed.b, KeyValue, value)

\* UpsertBuilder.Values; data is the struct read from the builder, whose
\* Values field is the slice value stored in the builder
ValuesOf(th, lh, arrs, b, values, data) ==
    IF data.isNil \/ data.panic
    THEN [th |-> th, lh |-> lh, arrs |-> arrs, b |-> b, panic |-> TRUE]
    ELSE LET grown == append(arrs,
                             IF data.s[KeyValues].t = "nil" THEN EmptyRows
                             ELSE data.s[KeyValues],
                             values)
         IN [arrs |-> grown.arrs] @@ Set(th, lh, b, KeyValues, grown.s)

UpsertBuilder_Values(th, lh, arrs, reg, b, values) ==
    ValuesOf(th, lh, arrs, b, values, GetStruct(th, lh, reg, "UpsertBuilder", b))

\* UpsertBuilder.SetMap: the map of the caller is stored, a is its address
UpsertBuilder_SetMap(th, lh, b, a) == Set(th, lh, b, KeySetMap, MapVal(a))

ErrNoBucket == "upsert statements must specify a bucket"

tUPSERT == <<"U", "P", "S", "E", "R", "T", " ">>
tINTO == <<"I", "N", "T", "O", " ">>
tKEYVALUE == <<" ", "(", "K", "E", "Y", ",", " ", "V", "A", "L", "U", "E", ")", " ", "V", "A", "L", "U", "E", "S", " ", "(">>
tOpen == <<"(">>
tClose == <<")">>
tVALUES == <<" ", "V", "A", "L", "U", "E", "S", " ">>
tUpsertSET == <<" ", "S", "E", "T", " ">>
tIs == <<"=">>

\* what the middle of an UPSERT is written from: text, a value that is
\* rendered if it is a fragment and bound to a marker otherwise, and an
\* argument appended without text
AsText(text) == [is |-> "text", text |-> text]
AsValue(value) == [is |-> "value", value |-> value]
AsArg(value) == [is |-> "arg", value |-> value]

\* a stored value as the argument it is rendered from
Arg(val) == IF val.t = "N1qlizer" THEN val.v[1] ELSE Val(val.v[1])

\* the items of a sequence of item sequences, in order
RECURSIVE FlatItems(_)
FlatItems(ss) == IF ss = <<>> THEN <<>> ELSE Head(ss) \o FlatItems(Tail(ss))

\* the (KEY, VALUE) form
documentItems(d) ==
    <<AsText(tKEYVALUE)>>
    \o (IF Text(d[KeyKey])[1] = "?"
        THEN <<AsText(Text(d[KeyKey])), AsArg(Val(Tail(Text(d[KeyKey]))))>>
        ELSE <<AsText(tMarker), AsArg(Val(Text(d[KeyKey])))>>)
    \o <<AsText(tComma), AsValue(Arg(d[KeyValue])), AsText(tClose)>>

\* one row in parentheses
rowItems(i, values) ==
    <<AsText((IF i > 1 THEN tComma ELSE <<>>) \o tOpen)>>
    \o FlatItems([j \in 1..Len(values) |->
                    (IF j > 1 THEN <<AsText(tComma)>> ELSE <<>>)
                    \o <<AsValue(values[j])>>])
    \o <<AsText(tClose)>>

\* the columns and the rows
valuesItems(columns, rows) ==
    <<AsText(tSpace \o tOpen \o Join(columns, tComma) \o tClose \o tVALUES)>>
    \o FlatItems([i \in 1..Len(rows) |-> rowItems(i, rows[i])])

\* the SET form: the entries of the map in the order the range statement
\* yields them
setItems(m, order) ==
    <<AsText(tUpsertSET)>>
    \o FlatItems([i \in 1..Len(order) |->
                    <<AsText((IF i > 1 THEN tComma ELSE <<>>) \o order[i] \o tIs),
                      AsValue(m[order[i]])>>])

\* the items written after r, up to the first that fails to render
RECURSIVE bound(_, _)
bound(r, items) ==
    IF items = <<>> \/ r.err # "" THEN r
    ELSE LET item == Head(items)
         IN bound(CASE item.is = "text" -> [r EXCEPT !.sql = r.sql \o item.text]
                    [] item.is = "arg" -> [r EXCEPT !.args = Append(r.args, item.value)]
                    [] item.is = "value" ->
                         IF IsN1qlizer(item.value)
                         THEN assigned(r, r.sql, ToN1ql(item.value))
                         ELSE [r EXCEPT !.sql = r.sql \o tMarker,
                                        !.args = Append(r.args, item.value)],
                  Tail(items))

\* the orders in which a range statement may yield the keys of a map
Orders(S) ==
    {order \in [1..Cardinality(S) -> S] :
        \A i, j \in 1..Cardinality(S) : order[i] = order[j] => i = j}

\* the orders for the SetMap field of a struct
RangeOrders(gm, d) ==
    IF d[KeySetMap].t = "nil" THEN {<<>>} ELSE Orders(DOMAIN gm[d[KeySetMap].v[1]])

\* the form the middle of the statement takes
upsertItems(gm, arrs, d, order) ==
    IF Text(d[KeyKey]) # <<>> /\ d[KeyValue].t # "nil" THEN documentItems(d)
    ELSE IF Len(Texts(d[KeyColumns])) > 0 /\ Len(Rows(arrs, d[KeyValues])) > 0
    THEN valuesItems(Texts(d[KeyColumns]), Rows(arrs, d[KeyValues]))
    ELSE IF MapLen(gm, d[KeySetMap]) > 0
    THEN setItems(gm[d[KeySetMap].v[1]], order)
    ELSE <<>>

\* upsertData.toN1qlRaw; order is the order in which the range over SetMap
\* yields its keys
upsertData_toN1qlRaw(gm, arrs, d, order) ==
    IF Len(Text(d[KeyInto])) = 0 THEN Failed(ErrNoBucket)
    ELSE written(
           bound(
             written(
               [sql |-> <<>>, args |-> <<>>, err |-> ""],
               <<Parts(Len(Frags(d[KeyPrefixes])) > 0, <<>>, Frags(d[KeyPrefixes]),
                       tSpace, tSpace),
                 PlainText(TRUE, tUPSERT),
                 PlainText(Len(Texts(d[KeyOptions])) > 0,
                           Join(Texts(d[KeyOptions]), tSpace) \o tSpace),
                 PlainText(TRUE, tINTO \o Text(d[KeyInto]))>>),
             upsertItems(gm, arrs, d, order)),
           <<Parts(Len(Frags(d[KeySuffixes])) > 0, tSpace, Frags(d[KeySuffixes]),
                   tSpace, <<>>)>>)

\* UpsertBuilder.ToN1ql: GetStruct(b).(upsertData).ToN1ql()
upsertToN1ql(gm, arrs, data, order) ==
    IF data.isNil \/ data.panic
    THEN [sql |-> <<>>, args |-> <<>>, err |-> "", panic |-> TRUE]
    ELSE finalize(data.s, upsertData_toN1qlRaw(gm, arrs, data.s, order))

UpsertBuilder_ToN1ql(th, lh, gm, arrs, reg, b, order) ==
    upsertToN1ql(gm, arrs, GetStruct(th, lh, reg, "UpsertBuilder", b), order)

(***************************************************************************)
(* The builder state machine: every derived builder is kept as a handle,   *)
(* and each step derives one more from any handle made so far.             *)
(***************************************************************************)
ListNames == {KeyI}
Values == {IntVal(1), IntVal(2)}
AppendArgs == {<<IntVal(1)>>, <<IntVal(2), IntVal(1)>>}
ExtendArgs == {[isNil |-> TRUE, elems |-> <<>>],
               [isNil |-> FALSE, elems |-> <<IntVal(1), IntVal(2)>>]}

NoCall == [fn |-> "none"]

\* the goroutines of a concurrent run and a goroutine that is in no call
Threads == 1..MaxThreads
Idle == [pc |-> "idle"]

NoOp == [op |-> "none", src |-> 0, dst |-> 0, name |-> <<>>, val |-> NilVal,
         elems |-> <<>>, pre |-> [val |-> NilVal, found |-> FALSE],
         preSize |-> 0, panic |-> FALSE]

NoMapOp == [op |-> "none", key |-> <<>>, val |-> NilVal, prev |-> nilTree,
            pre |-> [val |-> NilVal, found |-> FALSE], preSize |-> 0,
            found |-> FALSE, panic |-> FALSE, n |-> 0]

\* what has been appended under a name since it was unset: st is "unset",
\* "list" (only Append and Extend have touched the name) or "other"
Unset == [st |-> "unset", vals |-> <<>>]
Other == [st |-> "other", vals |-> <<>>]

Init ==
    /\ trees = <<nilTreeNode>>
    /\ lists = <<nilListNode>>
    /\ handles = <<Nil>>
    /\ last = NoOp
    /\ applog = <<[n \in ListNames |-> Unset]>>
    /\ mp = NewMap
    /\ mlast = NoMapOp
    /\ rcall = NoCall
    /\ gomaps = <<>>
    /\ registry = InitialRegistry
    /\ mux = Unlocked
    /\ stmts = <<>>
    /\ built = <<>>
    /\ procs = [t \in Threads |-> Idle]
    /\ arrays = <<>>

LogAfter(op, src, name, elems) ==
    [n \in ListNames |->
        IF n # name \/ op = "ExtendNil" THEN applog[src][n]
        ELSE IF op \in {"Set", "Remove"} THEN Other
        ELSE IF applog[src][n].st = "other" THEN Other
        ELSE [st |-> "list", vals |-> applog[src][n].vals \o elems]]

Record(op, src, name, val, elems, r) ==
    /\ trees' = r.th
    /\ lists' = r.lh
    /\ handles' = Append(handles, r.b)
    /\ last' = [op |-> op, src |-> src, dst |-> Len(handles) + 1, name |-> name,
                val |-> val, elems |-> elems,
                pre |-> MapLookup(trees, getBuilderMap(handles[src]), name),
                preSize |-> Size(trees, getBuilderMap(handles[src])),
                panic |-> r.panic]
    /\ applog' = Append(applog, LogAfter(op, src, name, elems))
    /\ UNCHANGED <<mp, mlast, rcall, gomaps, registry, mux, stmts, built, procs, arrays>>

CanStep == Len(handles) <= MaxOps /\ ~last.panic

DoSet ==
    /\ CanStep
    /\ \E src \in 1..Len(handles), name \in Names, v \in Values :
          Record("Set", src, name, v, <<>>,
                 Set(trees, lists, handles[src], name, v))

DoRemove ==
    /\ CanStep
    /\ \E src \in 1..Len(handles), name \in Names :
          Record("Remove", src, name, NilVal, <<>>,
                 Remove(trees, lists, handles[src], name))

DoAppend ==
    /\ CanStep
    /\ \E src \in 1..Len(handles), name \in ListNames, vs \in AppendArgs :
          Record("Append", src, name, NilVal, vs,
                 AppendValues(trees, lists, handles[src], name, vs))

DoExtend ==
    /\ CanStep
    /\ \E src \in 1..Len(handles), name \in ListNames, vs \in ExtendArgs :
          Record(IF vs.isNil THEN "ExtendNil" ELSE "Extend", src, name, NilVal,
                 vs.elems, Extend(trees, lists, handles[src], name, vs))

Next == DoSet \/ DoRemove \/ DoAppend \/ DoExtend

Spec == Init /\ [][Next]_vars

(***************************************************************************)
(* The map state machine: one map, replaced at every step by the result of *)
(* a Set or a Delete on it.                                                *)
(***************************************************************************)
MapOps == mlast.n

MapDoSet ==
    /\ ~mlast.panic
    /\ MapOps < MaxMapOps
    /\ \E key \in MapKeys, v \in Values :
          LET r == MapSet(trees, mp, key, v)
          IN /\ trees' = r.h
             /\ mp' = r.p
             /\ mlast' = [op |-> "Set", key |-> key, val |-> v, prev |-> mp,
                          pre |-> MapLookup(trees, mp, key),
                          preSize |-> Size(trees, mp), found |-> FALSE,
                          panic |-> FALSE, n |-> MapOps + 1]
    /\ UNCHANGED <<lists, handles, last, applog, rcall, gomaps, registry, mux,
                   stmts, built, procs, arrays>>

MapDoDelete ==
    /\ ~mlast.panic
    /\ MapOps < MaxMapOps
    /\ \E key \in MapKeys :
          LET r == MapDelete(trees, mp, key)
          IN /\ trees' = r.h
             /\ mp' = r.p
             /\ mlast' = [op |-> "Delete", key |-> key, val |-> NilVal,
                          prev |-> mp, pre |-> MapLookup(trees, mp, key),
                          preSize |-> Size(trees, mp), found |-> r.found,
                          panic |-> r.panic, n |-> MapOps + 1]
    /\ UNCHANGED <<lists, handles, last, applog, rcall, gomaps, registry, mux,
                   stmts, built, procs, arrays>>

MapNext == MapDoSet \/ MapDoDelete

MapSpec == Init /\ [][MapNext]_vars

(***************************************************************************)
(* The rendering state machine: one input is chosen and rendered.          *)
(***************************************************************************)
RECURSIVE SeqsUpTo(_, _)
SeqsUpTo(S, n) ==
    IF n = 0 THEN {<<>>}
    ELSE LET shorter == SeqsUpTo(S, n - 1)
         IN shorter \cup {Append(q, x) : q \in {r \in shorter : Len(r) = n - 1}, x \in S}

tExample == <<"a", " ", "?", " ", "b", " ", "?", "?", " ", "c", " ", "?">>
tExampleDollar == <<"a", " ", "$", "1", " ", "b", " ", "?", " ", "c", " ", "$", "2">>
tEleven == <<"?", ",", "?", ",", "?", ",", "?", ",", "?", ",", "?", ",", "?", ",", "?", ",", "?", ",", "?", ",", "?">>

Templates == SeqsUpTo({"a", "?"}, MaxTemplateLen) \cup {tExample}

ArgPool ==
    {Val(1), Val(2),
     Expr(<<"x", " ", "?">>, <<Val(3)>>),
     Expr(<<"y">>, <<>>),
     Expr(<<"z">>, <<Val(4)>>),
     Expr(<<"?">>, <<>>),
     Expr(<<"(", "?", ")">>, <<Expr(<<"w", " ", "?">>, <<Val(5)>>)>>)}

ArgLists == SeqsUpTo(ArgPool, MaxArgs)

PartPool ==
    {Expr(<<>>, <<>>),
     Expr(<<"a">>, <<>>),
     Expr(<<"b", " ", "?">>, <<Val(1)>>),
     Expr(<<"?">>, <<>>)}

PartLists == SeqsUpTo(PartPool, MaxParts)

Seps == {tComma, tAND, <<>>}

Formats == {"Question", "Dollar"}

SelectData(format, columns, from, where, full) ==
    [PlaceholderFormat |-> format,
     Prefixes |-> IF full THEN <<Expr(<<"W", "I", "T", "H", " ", "p", " ", "A", "S", " ", "(", "?", ")">>, <<Val(7)>>)>> ELSE <<>>,
     Options |-> IF full THEN <<<<"D", "I", "S", "T", "I", "N", "C", "T">>>> ELSE <<>>,
     Columns |-> columns,
     From |-> from,
     Joins |-> IF full THEN <<Expr(<<"J", "O", "I", "N", " ", "j", " ", "O", "N", " ", "k", " ", "=", " ", "?">>, <<Val(8)>>)>> ELSE <<>>,
     WhereParts |-> where,
     GroupBys |-> IF full THEN <<<<"g">>, <<"h">>>> ELSE <<>>,
     HavingParts |-> IF full THEN <<Expr(<<"c", " ", ">", " ", "?">>, <<Val(9)>>)>> ELSE <<>>,
     OrderByParts |-> IF full THEN <<newPart(<<"o">>)>> ELSE <<>>,
     Limit |-> IF full THEN <<"5">> ELSE <<>>,
     Offset |-> IF full THEN <<"2">> ELSE <<>>,
     Suffixes |-> IF full THEN <<Expr(<<"F", "O", "R", " ", "U", "P", "D", "A", "T", "E">>, <<>>)>> ELSE <<>>,
     UseKeys |-> IF full THEN <<"'", "k", "'">> ELSE <<>>]

SelectBuilder(d) == [kind |-> "select", data |-> d]

\* FromSelect stores Alias(from, alias) under From
FromSelect(from, alias) == Alias(SelectBuilder(from), alias)

WhereChoices ==
    {<<>>,
     <<Expr(<<"y", " ", "=", " ", "?">>, <<Val(3)>>)>>,
     <<Expr(<<"y", " ", "=", " ", "?">>, <<Val(3)>>), Expr(<<"z", " ", "?", "?", " ", "?">>, <<Val(4)>>)>>}

ColumnChoices ==
    {<<>>,
     <<newPart(<<"a">>)>>,
     <<newPart(<<"a">>), Expr(<<"f", "(", "?", ")">>, <<Val(1)>>)>>}

InnerSelects ==
    {SelectData(f, <<newPart(<<"b">>)>>, newPart(<<"t">>), w, FALSE) :
        f \in Formats,
        w \in {<<>>, <<Expr(<<"x", " ", "=", " ", "?">>, <<Val(2)>>)>>}}

FromChoices ==
    {NoFrom, newPart(<<"t">>)} \cup {FromSelect(d, <<"s">>) : d \in InnerSelects}

CallBuildClauses ==
    /\ rcall = NoCall
    /\ \E parts \in PartLists, sep \in Seps :
          rcall' = [fn |-> "buildClauses", parts |-> parts, sep |-> sep,
                    out |-> buildClauses(parts, <<>>, sep, <<>>)]
    /\ UNCHANGED <<trees, lists, handles, last, applog, mp, mlast, gomaps,
                   registry, mux, stmts, built, procs, arrays>>

CallExpr ==
    /\ rcall = NoCall
    /\ \E sql \in Templates, args \in ArgLists :
          rcall' = [fn |-> "expr", e |-> Expr(sql, args),
                    out |-> ToN1ql(Expr(sql, args))]
    /\ UNCHANGED <<trees, lists, handles, last, applog, mp, mlast, gomaps,
                   registry, mux, stmts, built, procs, arrays>>

CallReplace ==
    /\ rcall = NoCall
    /\ \E sql \in Templates \cup {tEleven} :
          rcall' = [fn |-> "replace", sql |-> sql,
                    out |-> ReplacePlaceholders("Dollar", sql)]
    /\ UNCHANGED <<trees, lists, handles, last, applog, mp, mlast, gomaps,
                   registry, mux, stmts, built, procs, arrays>>

CallSelect ==
    /\ rcall = NoCall
    /\ \E f \in Formats, c \in ColumnChoices, from \in FromChoices,
          w \in WhereChoices, full \in BOOLEAN :
          LET b == SelectBuilder(SelectData(f, c, from, w, full))
          IN rcall' = [fn |-> "select", b |-> b, out |-> ToN1ql(b)]
    /\ UNCHANGED <<trees, lists, handles, last, applog, mp, mlast, gomaps,
                   registry, mux, stmts, built, procs, arrays>>

\* fragments to nest: two that render, one expr short of an argument and a
\* select without columns
ChildPool ==
    {Expr(<<"a">>, <<>>),
     Expr(<<"b", " ", "?">>, <<Val(1)>>),
     Expr(<<"?">>, <<>>),
     SelectBuilder(SelectData("Question", <<>>, NoFrom, <<>>, FALSE))}

ChildLists == SeqsUpTo(ChildPool, MaxChildren) \ {<<>>}

Composites ==
    {"Expr", "Alias", "And", "Or", "FTSConjunction", "FTSDisjunction", "Select",
     "buildClauses"}

\* a template with one marker for each of n arguments
RECURSIVE MarkerList(_)
MarkerList(n) == IF n = 0 THEN <<>> ELSE <<"?", " ">> \o MarkerList(n - 1)

\* the rendering of the composite built over the children
Composed(how, children) ==
    CASE how = "Expr" -> ToN1ql(Expr(MarkerList(Len(children)), children))
      [] how = "Alias" -> ToN1ql(Alias(children[1], <<"s">>))
      [] how = "And" -> ToN1ql(And(children))
      [] how = "Or" -> ToN1ql(Or(children))
      [] how = "FTSConjunction" -> ToN1ql(FTSConjunction(children))
      [] how = "FTSDisjunction" -> ToN1ql(FTSDisjunction(children))
      [] how = "Select" ->
           ToN1ql(SelectBuilder(SelectData("Question", <<newPart(<<"a">>)>>,
                                           NoFrom, children, FALSE)))
      [] how = "buildClauses" -> buildClauses(children, <<>>, tComma, <<>>)

CallComposite ==
    /\ rcall = NoCall
    /\ \E how \in Composites, children \in ChildLists :
          /\ how = "Alias" => Len(children) = 1
          /\ rcall' = [fn |-> "composite", how |-> how, children |-> children,
                       out |-> Composed(how, children)]
    /\ UNCHANGED <<trees, lists, handles, last, applog, mp, mlast, gomaps,
                   registry, mux, stmts, built, procs, arrays>>

RenderNext ==
    CallBuildClauses \/ CallExpr \/ CallReplace \/ CallSelect \/ CallComposite

RenderSpec == Init /\ [][RenderNext]_vars

(***************************************************************************)
(* The Execute helpers, one statement per step: the builder's Execute and  *)
(* ExecuteContext check the runner stored under RunWith and go on with     *)
(* ExecuteWith and ExecuteContextWith, which render and hand the result to *)
(* the runner.  rcall holds the call under way, the rendering it got and   *)
(* the calls the runner received.                                          *)
(***************************************************************************)
RunnerNotSet == "cannot run; no Runner set (RunWith)"
RunnerNotQueryRunnerContext ==
    "cannot QueryRowContext; Runner is not a QueryRunnerContext"

\* what RunWith may hold: nothing, a QueryRunner without ExecuteContext, a
\* QueryRunnerContext
Runners == {"nil", "QueryRunner", "QueryRunnerContext"}

Contexts == {"background", "cancelled"}

ExecHelpers == {"Execute", "ExecuteContext", "ExecuteWith", "ExecuteContextWith"}

WithContext(fn) == fn \in {"ExecuteContext", "ExecuteContextWith"}

\* the statements executed: with and without columns, with a WHERE that
\* renders and one that is short of an argument
ExecStatements ==
    {SelectBuilder(SelectData(f, c, newPart(<<"t">>), w, FALSE)) :
        f \in Formats, c \in ColumnChoices, w \in WhereChoices}

NotRendered == [sql |-> <<>>, args |-> <<>>, err |-> "not rendered"]

\* the error check after n.ToN1ql()
neverFailed(out) == FALSE
renderFailed(out) == out.err # ""

\* db.Execute(query, args...) and db.ExecuteContext(ctx, query, args...)
Forwarded(fn, ctx, out) ==
    [method |-> IF WithContext(fn) THEN "ExecuteContext" ELSE "Execute",
     ctx |-> ctx, query |-> out.sql, args |-> out.args]

ExecAt(pc) == rcall.fn \in ExecHelpers /\ rcall.pc = pc

Returned(err) == rcall' = [rcall EXCEPT !.pc = "done", !.err = err]

\* a helper is called; the types let ExecuteWith take any runner and
\* ExecuteContextWith one with ExecuteContext only
ExecCall ==
    /\ rcall = NoCall
    /\ \E fn \in ExecHelpers, n \in ExecStatements, db \in Runners,
          ctx \in Contexts \cup {"none"} :
          /\ (ctx = "none") = ~WithContext(fn)
          /\ fn = "ExecuteWith" => db # "nil"
          /\ fn = "ExecuteContextWith" => db = "QueryRunnerContext"
          /\ rcall' = [fn |-> fn, n |-> n, db |-> db, ctx |-> ctx,
                       pc |-> IF fn \in {"Execute", "ExecuteContext"}
                              THEN "runner" ELSE "render",
                       out |-> NotRendered, calls |-> <<>>, err |-> ""]
    /\ UNCHANGED <<trees, lists, handles, last, applog, mp, mlast, gomaps,
                   registry, mux, stmts, built, procs, arrays>>

\* if data.RunWith == nil
ExecCheckRunner ==
    /\ ExecAt("runner")
    /\ IF rcall.db = "nil" THEN Returned(RunnerNotSet)
       ELSE rcall' = [rcall EXCEPT !.pc = IF rcall.fn = "ExecuteContext"
                                          THEN "assert" ELSE "render"]
    /\ UNCHANGED <<trees, lists, handles, last, applog, mp, mlast, gomaps,
                   registry, mux, stmts, built, procs, arrays>>

\* runner, ok := d.RunWith.(QueryRunnerContext)
ExecAssertContext ==
    /\ ExecAt("assert")
    /\ IF rcall.db # "QueryRunnerContext"
       THEN Returned(RunnerNotQueryRunnerContext)
       ELSE rcall' = [rcall EXCEPT !.pc = "render"]
    /\ UNCHANGED <<trees, lists, handles, last, applog, mp, mlast, gomaps,
                   registry, mux, stmts, built, procs, arrays>>

\* query, args, err := n.ToN1ql()
ExecRender ==
    /\ ExecAt("render")
    /\ LET out == ToN1ql(rcall.n)
       IN rcall' = [rcall EXCEPT !.out = out,
                                 !.pc = IF renderFailed(out) THEN "done"
                                        ELSE "forward",
                                 !.err = out.err]
    /\ UNCHANGED <<trees, lists, handles, last, applog, mp, mlast, gomaps,
                   registry, mux, stmts, built, procs, arrays>>

\* return db.Execute(query, args...): the runner takes the call and what
\* it answers is returned
ExecForward ==
    /\ ExecAt("forward")
    /\ \E answer \in {"", "runner error"} :
          rcall' = [rcall EXCEPT
                       !.calls = Append(@, Forwarded(rcall.fn, rcall.ctx, rcall.out)),
                       !.pc = "done", !.err = answer]
    /\ UNCHANGED <<trees, lists, handles, last, applog, mp, mlast, gomaps,
                   registry, mux, stmts, built, procs, arrays>>

\* the helper has returned; the next call may start
ExecReturn ==
    /\ ExecAt("done")
    /\ rcall' = NoCall
    /\ UNCHANGED <<trees, lists, handles, last, applog, mp, mlast, gomaps,
                   registry, mux, stmts, built, procs, arrays>>

ExecNext ==
    \/ ExecCall \/ ExecCheckRunner \/ ExecAssertContext \/ ExecRender
    \/ ExecForward \/ ExecReturn

ExecSpec == Init /\ [][ExecNext]_vars

(***************************************************************************)
(* The statement state machine: UPDATE and analytics SELECT builders are   *)
(* created and derived from one another; stmts keeps every builder made,   *)
(* with its type.                                                          *)
(***************************************************************************)
SetColumns == {<<"a">>, <<"b">>}

SetValues == {Val(1), Val(2), Expr(<<"v", " ", "+", " ", "?">>, <<Val(3)>>)}

SetMaps ==
    {(<<"a">> :> Val(1)) @@ (<<"b">> :> Val(2)),
     (<<"b">> :> Val(1))}

LetValues == {Val(1), Expr(<<"v">>, <<>>)}

CanAdd == Len(stmts) < MaxStmts /\ ~last.panic

Rendering(type, b) == StatementToN1ql(trees, lists, gomaps, registry, type, b)

\* the number of entries of the map-typed field of a builder
Entries(type, b, field) ==
    MapLen(gomaps, GetStruct(trees, lists, registry, type, b).s[field])

\* a builder made without a receiver
Made(op, type, r) ==
    /\ trees' = r.th
    /\ lists' = r.lh
    /\ stmts' = Append(stmts, [type |-> type, b |-> r.b])
    /\ last' = [op |-> op, src |-> 0, dst |-> Len(stmts) + 1, panic |-> r.panic]
    /\ UNCHANGED <<handles, applog, mp, mlast, rcall, gomaps, registry, mux, built, procs, arrays>>

\* a builder derived from stmts[src]; pre is what the receiver rendered to
\* before the call, had the number of entries of its map-typed field
Derived(op, src, field, r) ==
    /\ trees' = r.th
    /\ lists' = r.lh
    /\ gomaps' = r.gm
    /\ stmts' = Append(stmts, [type |-> stmts[src].type, b |-> r.b])
    /\ last' = [op |-> op, src |-> src, dst |-> Len(stmts) + 1,
                pre |-> Rendering(stmts[src].type, stmts[src].b),
                had |-> Entries(stmts[src].type, stmts[src].b, field),
                panic |-> r.panic]
    /\ UNCHANGED <<handles, applog, mp, mlast, rcall, registry, mux, built, procs, arrays>>

DoUpdate ==
    /\ CanAdd
    /\ Made("Update", "UpdateBuilder", Update(trees, lists, <<"t">>))

DoAnalyticsSelect ==
    /\ CanAdd
    /\ Made("AnalyticsSelect", "AnalyticsSelectBuilder",
            AnalyticsSelect(trees, lists, <<<<"c">>>>))

DoUpdateSet ==
    /\ CanAdd
    /\ \E src \in 1..Len(stmts), column \in SetColumns, value \in SetValues :
          /\ stmts[src].type = "UpdateBuilder"
          /\ Derived("Set", src, KeySetClauses,
                     UpdateBuilder_Set(trees, lists, gomaps, registry,
                                       stmts[src].b, column, value))

DoUpdateSetMap ==
    /\ CanAdd
    /\ \E src \in 1..Len(stmts), clauses \in SetMaps :
          /\ stmts[src].type = "UpdateBuilder"
          /\ Derived("SetMap", src, KeySetClauses,
                     UpdateBuilder_SetMap(trees, lists, gomaps, registry,
                                          stmts[src].b, clauses))

DoUpdateWhere ==
    /\ CanAdd
    /\ \E src \in 1..Len(stmts) :
          /\ stmts[src].type = "UpdateBuilder"
          /\ Derived("Where", src, KeySetClauses,
                     [gm |-> gomaps]
                         @@ Where(trees, lists, stmts[src].b,
                                  <<"c", " ", "=", " ", "?">>, <<Val(4)>>))

DoLet ==
    /\ CanAdd
    /\ \E src \in 1..Len(stmts), variable \in SetColumns, value \in LetValues :
          /\ stmts[src].type = "AnalyticsSelectBuilder"
          /\ Derived("Let", src, KeyLetsClause,
                     AnalyticsSelectBuilder_Let(trees, lists, gomaps, registry,
                                                stmts[src].b, variable, value))

StmtNext ==
    DoUpdate \/ DoAnalyticsSelect \/ DoUpdateSet \/ DoUpdateSetMap
        \/ DoUpdateWhere \/ DoLet

StmtSpec == Init /\ [][StmtNext]_vars

(***************************************************************************)
(* The UPSERT state machine: one statement is made by Upsert and one of    *)
(* Columns, Document and SetMap, builders are derived from it and from one *)
(* another by Values, and the builders of the last call are rendered, any  *)
(* number of times.  The k-th call of Values adds the row (k).  stmts      *)
(* keeps every builder made, with the one it was derived from and the rows *)
(* given to the calls that led to it; last holds what the last call        *)
(* returned and, for a ToN1ql that follows a ToN1ql of the same builder,   *)
(* what that one returned.                                                 *)
(***************************************************************************)
Buckets == {<<"b">>, <<>>}

DocumentKeys == {<<"k">>, <<"?", "k">>}

NoRendering == [sql |-> <<>>, args |-> <<>>, err |-> "none", panic |-> FALSE]

UpsertShapes ==
    {[op |-> op, key |-> <<>>, clauses |-> <<>>] : op \in {"none", "Columns"}}
    \cup {[op |-> "Document", key |-> key, clauses |-> <<>>] : key \in DocumentKeys}
    \cup {[op |-> "SetMap", key |-> <<>>, clauses |-> clauses] : clauses \in SetMaps}

\* the call that follows Upsert(into); a is the address of the caller's map
Shaped(r, shape, a) ==
    CASE shape.op = "none" -> r
      [] shape.op = "Columns" -> UpsertBuilder_Columns(r.th, r.lh, r.b, <<<<"c">>>>)
      [] shape.op = "Document" -> Document(r.th, r.lh, r.b, shape.key, IntVal(1))
      [] shape.op = "SetMap" -> UpsertBuilder_SetMap(r.th, r.lh, r.b, a)

DoUpsert ==
    /\ stmts = <<>>
    /\ \E into \in Buckets, shape \in UpsertShapes :
          /\ into = <<>> => shape.op = "none"
          /\ LET r == Shaped(Upsert(trees, lists, into), shape, Len(gomaps) + 1)
             IN /\ trees' = r.th
                /\ lists' = r.lh
                /\ gomaps' = IF shape.op = "SetMap"
                             THEN Append(gomaps, shape.clauses) ELSE gomaps
                /\ stmts' = <<[type |-> "UpsertBuilder", b |-> r.b, from |-> 0,
                                rows |-> <<>>]>>
                /\ last' = [op |-> "Upsert", src |-> 0, dst |-> 1,
                            panic |-> r.panic]
    /\ UNCHANGED <<handles, applog, mp, mlast, rcall, registry, mux, built,
                   procs, arrays>>

NextRow == <<Val(Len(stmts))>>

DoValues ==
    /\ stmts # <<>>
    /\ Len(stmts) <= MaxRows
    /\ ~last.panic
    /\ \E src \in 1..Len(stmts) :
          LET r == UpsertBuilder_Values(trees, lists, arrays, registry,
                                        stmts[src].b, NextRow)
          IN /\ trees' = r.th
             /\ lists' = r.lh
             /\ arrays' = r.arrs
             /\ stmts' = Append(stmts, [type |-> "UpsertBuilder", b |-> r.b,
                                        from |-> src,
                                        rows |-> Append(stmts[src].rows, NextRow)])
             /\ last' = [op |-> "Values", src |-> src, dst |-> Len(stmts) + 1,
                         panic |-> r.panic]
    /\ UNCHANGED <<handles, applog, mp, mlast, rcall, gomaps, registry, mux,
                   built, procs>>

\* the struct GetStruct reads from a builder made
StructOf(i) == GetStruct(trees, lists, registry, "UpsertBuilder", stmts[i].b)

DoUpsertToN1ql ==
    /\ stmts # <<>>
    /\ ~last.panic
    /\ \E src \in {last.src, last.dst} \ {0} :
          LET data == StructOf(src)
              again == last.op = "ToN1ql" /\ last.src = src
          IN \E order \in (IF data.isNil \/ data.panic THEN {<<>>}
                           ELSE RangeOrders(gomaps, data.s)) :
                LET out == upsertToN1ql(gomaps, arrays, data, order)
                IN last' = [op |-> "ToN1ql", src |-> src, dst |-> src,
                            out |-> out, again |-> again,
                            prev |-> IF again THEN last.out ELSE NoRendering,
                            panic |-> out.panic]
    /\ UNCHANGED <<trees, lists, handles, applog, mp, mlast, rcall, gomaps,
                   registry, mux, stmts, built, procs, arrays>>

UpsertNext == DoUpsert \/ DoValues \/ DoUpsertToN1ql

UpsertSpec == Init /\ [][UpsertNext]_vars

(***************************************************************************)
(* The SELECT state machine: SelectBuilders are created and given result   *)
(* columns; each entry of stmts also keeps, in cols, every column passed   *)
(* to the calls that made the builder, in call order.                      *)
(***************************************************************************)
ColumnsArgs == {<<<<"a">>>>, <<<<"b">>, <<"c">>>>}

ColumnArgs ==
    {[column |-> <<"c">>, args |-> <<>>],
     [column |-> <<"f", "(", "?", ")">>, args |-> <<Val(1)>>]}

ColumnsOf(columns) == [i \in 1..Len(columns) |-> [column |-> columns[i], args |-> <<>>]]

Selected(op, src, cols, r) ==
    /\ trees' = r.th
    /\ lists' = r.lh
    /\ stmts' = Append(stmts, [type |-> "SelectBuilder", b |-> r.b, cols |-> cols])
    /\ last' = [op |-> op, src |-> src, dst |-> Len(stmts) + 1, panic |-> r.panic]
    /\ UNCHANGED <<handles, applog, mp, mlast, rcall, gomaps, registry, mux, built, procs, arrays>>

DoSelect ==
    /\ CanAdd
    /\ \E columns \in ColumnsArgs \cup {<<>>} :
          Selected("Select", 0, ColumnsOf(columns), Select(trees, lists, columns))

DoColumns ==
    /\ CanAdd
    /\ \E src \in 1..Len(stmts), columns \in ColumnsArgs :
          Selected("Columns", src, stmts[src].cols \o ColumnsOf(columns),
                   Columns(trees, lists, stmts[src].b, columns))

DoColumn ==
    /\ CanAdd
    /\ \E src \in 1..Len(stmts), c \in ColumnArgs :
          Selected("Column", src, Append(stmts[src].cols, c),
                   Column(trees, lists, stmts[src].b, c.column, c.args))

SelectNext == DoSelect \/ DoColumns \/ DoColumn

SelectSpec == Init /\ [][SelectNext]_vars

(***************************************************************************)
(* The list state machine: lists and generic lists are made, extended and  *)
(* read; built keeps every list made, with the values consed onto the      *)
(* empty list to make it, in the order of the Cons calls.                  *)
(***************************************************************************)
CanBuild == Len(built) < MaxLists /\ ~last.panic

Built(op, src, kind, p, vals, lh, panic) ==
    /\ lists' = lh
    /\ built' = IF panic THEN built
                ELSE Append(built, [kind |-> kind, p |-> p, vals |-> vals, by |-> op])
    /\ last' = [op |-> op, src |-> src, dst |-> Len(built) + 1, panic |-> panic]
    /\ UNCHANGED <<trees, handles, applog, mp, mlast, rcall, gomaps, registry,
                   mux, stmts, procs, arrays>>

DoNewList ==
    /\ CanBuild
    /\ Built("NewList", 0, "list", NewList, <<>>, lists, FALSE)

DoNewGenericList ==
    /\ CanBuild
    /\ LET r == NewGenericList(lists)
       IN Built("NewGenericList", 0, "generic", r.p, <<>>, r.h, FALSE)

DoCons ==
    /\ CanBuild
    /\ \E src \in 1..Len(built), val \in Values :
          LET r == Cons(lists, built[src].p, val)
          IN Built("Cons", src, built[src].kind, r.p,
                   Append(built[src].vals, val), r.h, FALSE)

DoTail ==
    /\ CanBuild
    /\ \E src \in 1..Len(built) :
          LET r == list_Tail(built[src].kind, lists, built[src].p)
              n == Len(built[src].vals)
          IN Built("Tail", src, built[src].kind, r.p,
                   SubSeq(built[src].vals, 1, n - 1), lists, r.panic)

DoHead ==
    /\ ~last.panic
    /\ last.op # "Head"
    /\ \E src \in 1..Len(built) :
          LET r == list_Head(built[src].kind, lists, built[src].p)
          IN /\ last' = [op |-> "Head", src |-> src, dst |-> 0, panic |-> r.panic,
                         val |-> r.val]
             /\ UNCHANGED <<trees, lists, handles, applog, mp, mlast, rcall,
                            gomaps, registry, mux, stmts, built, procs, arrays>>

ListNext == DoNewList \/ DoNewGenericList \/ DoCons \/ DoTail \/ DoHead

ListSpec == Init /\ [][ListNext]_vars

(***************************************************************************)
(* The accessor state machine: a chain of method calls on a builder of the *)
(* registered shape fooBuilder or of the unregistered shape unregBuilder,  *)
(* as in builder_test.go, and the accessors read the builder reached.      *)
(* stmts is the chain; stored is what the calls so far have stored under   *)
(* each name: a value set, or the values appended in order.                *)
(***************************************************************************)
XValues == {IntVal(1), IntVal(5)}
IValues == {NilVal, IntVal(1)}
AddValues == {IntVal(3), IntVal(4)}
AnyValues == {NilVal, IntVal(3)}

NothingStored == [n \in {} |-> NilVal]

StoredSet(stored, name, v) ==
    [n \in DOMAIN stored \cup {name} |->
        IF n = name THEN [list |-> FALSE, v |-> v] ELSE stored[n]]

StoredAppend(stored, name, v) ==
    [n \in DOMAIN stored \cup {name} |->
        IF n # name THEN stored[n]
        ELSE IF name \in DOMAIN stored /\ stored[name].list
        THEN [list |-> TRUE, v |-> Append(stored[name].v, v)]
        ELSE [list |-> TRUE, v |-> <<v>>]]

Current == stmts[Len(stmts)]

CanChain == stmts # <<>> /\ Len(stmts) < MaxChain /\ ~last.panic

Started(op, type, b) ==
    /\ stmts = <<>>
    /\ stmts' = <<[type |-> type, b |-> b, stored |-> NothingStored]>>
    /\ last' = [op |-> op, src |-> 0, dst |-> 1, panic |-> FALSE]
    /\ UNCHANGED <<trees, lists, handles, applog, mp, mlast, rcall, gomaps,
                   registry, mux, built, procs, arrays>>

Chained(op, r, stored) ==
    /\ trees' = r.th
    /\ lists' = r.lh
    /\ stmts' = Append(stmts, [type |-> Current.type, b |-> r.b, stored |-> stored])
    /\ last' = [op |-> op, src |-> Len(stmts), dst |-> Len(stmts) + 1,
                panic |-> r.panic]
    /\ UNCHANGED <<handles, applog, mp, mlast, rcall, gomaps, registry, mux, built, procs, arrays>>

Read(op, res) ==
    /\ stmts # <<>>
    /\ ~last.panic
    /\ last' = [op |-> op, src |-> Len(stmts), dst |-> 0, panic |-> res.panic,
                res |-> res]
    /\ UNCHANGED <<trees, lists, handles, applog, mp, mlast, rcall, gomaps,
                   registry, mux, stmts, built, procs, arrays>>

\* FooBuilder of builder_test.go: what Register returned
DoFooBuilder == Started("FooBuilder", "fooBuilder", NewMap)

\* fooBuilder{}
DoZeroFooBuilder == Started("fooBuilder{}", "fooBuilder", Nil)

\* unregBuilder{}
DoZeroUnregBuilder == Started("unregBuilder{}", "unregBuilder", Nil)

DoX ==
    /\ CanChain /\ Current.type = "fooBuilder"
    /\ \E i \in XValues :
          Chained("X", Set(trees, lists, Current.b, KeyX, i),
                  StoredSet(Current.stored, KeyX, i))

DoY ==
    /\ CanChain /\ Current.type = "fooBuilder"
    /\ \E i \in XValues :
          Chained("Y", Set(trees, lists, Current.b, KeyY, i),
                  StoredSet(Current.stored, KeyY, i))

DoI ==
    /\ CanChain /\ Current.type = "fooBuilder"
    /\ \E i \in IValues :
          Chained("I", Set(trees, lists, Current.b, KeyI, i),
                  StoredSet(Current.stored, KeyI, i))

DoAdd ==
    /\ CanChain /\ Current.type = "fooBuilder"
    /\ \E i \in AddValues :
          Chained("Add", AppendValues(trees, lists, Current.b, KeyAdd, <<i>>),
                  StoredAppend(Current.stored, KeyAdd, i))

\* unregBuilder.Add, and Append[unregBuilder, any] on the same name
DoUnregAdd ==
    /\ CanChain /\ Current.type = "unregBuilder"
    /\ \E i \in AnyValues :
          Chained("Add", AppendValues(trees, lists, Current.b, KeyX, <<i>>),
                  StoredAppend(Current.stored, KeyX, i))

\* Set[unregBuilder, any]
DoUnregSet ==
    /\ CanChain /\ Current.type = "unregBuilder"
    /\ \E i \in IValues :
          Chained("Set", Set(trees, lists, Current.b, KeyI, i),
                  StoredSet(Current.stored, KeyI, i))

DoGetStruct ==
    Read("GetStruct", GetStruct(trees, lists, registry, Current.type, Current.b))

DoGet ==
    \E name \in {KeyX, KeyI, KeyAdd} :
        Read("Get", [name |-> name] @@
                    GetOf(trees, lists, registry, Current.type, Current.b, name))

DoGetMap ==
    Read("GetMap", GetMap(trees, lists, registry, Current.type, Current.b))

FooNext ==
    \/ DoFooBuilder \/ DoZeroFooBuilder \/ DoZeroUnregBuilder
    \/ DoX \/ DoY \/ DoI \/ DoAdd \/ DoUnregAdd \/ DoUnregSet
    \/ DoGetStruct \/ DoGet \/ DoGetMap

FooSpec == Init /\ [][FooNext]_vars

(***************************************************************************)
(* The registry state machine: shapes are registered and looked up; a      *)
(* panic of RegisterBuilderType is recovered by its caller.  The log kept  *)
(* in last holds the registrations that returned, in order.                *)
(***************************************************************************)
BuilderShapes == {"fooBuilder", "unregBuilder", "SelectBuilder"}
RegBuilderTypes == BuilderShapes \cup {"int"}
RegStructTypes == {"Foo", "selectData", "int", "[]int"}

RegLog == IF "log" \in DOMAIN last THEN last.log ELSE <<>>

DoRegister ==
    /\ Len(RegLog) < MaxRegs
    /\ ~mux.w /\ mux.r = 0
    /\ \E builderType \in RegBuilderTypes, structType \in RegStructTypes :
          LET r == RegisterBuilderType(registry, mux, builderType, structType)
          IN /\ registry' = r.reg
             /\ mux' = r.mux
             /\ last' = [op |-> "Register", src |-> 0, dst |-> 0,
                         panic |-> r.panic, builderType |-> builderType,
                         structType |-> structType, before |-> registry,
                         log |-> IF r.panic THEN RegLog
                                 ELSE Append(RegLog, [builderType |-> builderType,
                                                      structType |-> structType])]
    /\ UNCHANGED <<trees, lists, handles, applog, mp, mlast, rcall, gomaps,
                   stmts, built, procs, arrays>>

DoLookup ==
    /\ ~mux.w
    /\ \E builderType \in RegBuilderTypes :
          last' = [op |-> "Lookup", src |-> 0, dst |-> 0, panic |-> FALSE,
                   builderType |-> builderType,
                   res |-> GetBuilderStructType(registry, builderType),
                   log |-> RegLog]
    /\ UNCHANGED <<trees, lists, handles, applog, mp, mlast, rcall, gomaps,
                   registry, mux, stmts, built, procs, arrays>>

RegNext == DoRegister \/ DoLookup

RegSpec == Init /\ [][RegNext]_vars

(***************************************************************************)
(* The registry under concurrent callers.  Each goroutine runs one call at *)
(* a time, one statement per step: RegisterBuilderType takes the write     *)
(* lock, checks the record type, writes the table, converts and unlocks;   *)
(* GetBuilderStructType takes the read lock, indexes the table and         *)
(* unlocks; NewBuilderStruct calls GetBuilderStructType and allocates.     *)
(* A write and an index of a Go map are not atomic: each takes two steps,  *)
(* and an index that overlaps a write is a data race that may yield any    *)
(* value.  last holds the pairs the registrations wrote and the call that  *)
(* returned last.                                                          *)
(***************************************************************************)
SharedShapes == {"fooBuilder", "unregBuilder", "int"}
SharedStructTypes == {"selectData", "int"}
LookupOps == {"GetBuilderStructType", "NewBuilderStruct"}

InitialPairs == {<<t, InitialRegistry[t]>> : t \in DOMAIN InitialRegistry}

StoredPairs == IF "stored" \in DOMAIN last THEN last.stored ELSE InitialPairs
CallsMade == IF "calls" \in DOMAIN last THEN last.calls ELSE 0
NoneDone == [op |-> "none"]
LastDone == IF "done" \in DOMAIN last THEN last.done ELSE NoneDone

Shared(stored, calls, done) ==
    [op |-> "shared", src |-> 0, dst |-> 0, panic |-> FALSE,
     stored |-> stored, calls |-> calls, done |-> done]

At(t, pc) == procs[t].pc = pc

Goto(t, pc) == procs' = [procs EXCEPT ![t].pc = pc]

\* an index of the table that runs while a write is in progress
Torn(t) == \E u \in Threads \ {t} : At(u, "Putting")

CallRegister(t) ==
    /\ At(t, "idle")
    /\ CallsMade < MaxCalls
    /\ \E builderType \in SharedShapes, structType \in SharedStructTypes :
          procs' = [procs EXCEPT ![t] =
                      [pc |-> "Lock", op |-> "RegisterBuilderType",
                       builderType |-> builderType, structType |-> structType,
                       res |-> "", torn |-> FALSE, panic |-> FALSE]]
    /\ last' = Shared(StoredPairs, CallsMade + 1, LastDone)
    /\ UNCHANGED <<trees, lists, handles, applog, mp, mlast, rcall, gomaps,
                   registry, mux, stmts, built, arrays>>

RegLock(t) ==
    /\ At(t, "Lock")
    /\ CanLock(mux)
    /\ mux' = Lock(mux)
    /\ Goto(t, "NumField")
    /\ UNCHANGED <<trees, lists, handles, last, applog, mp, mlast, rcall,
                   gomaps, registry, stmts, built, arrays>>

\* structType.NumField() panics unless structType is a struct type; the
\* deferred Unlock is what runs next
RegNumField(t) ==
    /\ At(t, "NumField")
    /\ procs' = [procs EXCEPT
                   ![t].pc = IF IsStruct(procs[t].structType) THEN "Put"
                             ELSE "Unlock",
                   ![t].panic = ~IsStruct(procs[t].structType)]
    /\ UNCHANGED <<trees, lists, handles, last, applog, mp, mlast, rcall,
                   gomaps, registry, mux, stmts, built, arrays>>

\* the write of the table begins; an index in progress is torn by it
RegPutBegin(t) ==
    /\ At(t, "Put")
    /\ procs' = [u \in Threads |->
                   IF u = t THEN [procs[u] EXCEPT !.pc = "Putting"]
                   ELSE IF At(u, "Indexing") THEN [procs[u] EXCEPT !.torn = TRUE]
                   ELSE procs[u]]
    /\ UNCHANGED <<trees, lists, handles, last, applog, mp, mlast, rcall,
                   gomaps, registry, mux, stmts, built, arrays>>

RegPutEnd(t) ==
    /\ At(t, "Putting")
    /\ registry' = Put(registry, procs[t].builderType, procs[t].structType)
    /\ Goto(t, "Convert")
    /\ last' = Shared(StoredPairs \cup {<<procs[t].builderType, procs[t].structType>>},
                      CallsMade, LastDone)
    /\ UNCHANGED <<trees, lists, handles, applog, mp, mlast, rcall, gomaps,
                   mux, stmts, built, arrays>>

\* reflect.ValueOf(EmptyBuilder).Convert(builderType) panics unless the
\* builder type is a Builder
RegConvert(t) ==
    /\ At(t, "Convert")
    /\ procs' = [procs EXCEPT
                   ![t].pc = "Unlock",
                   ![t].panic = ~ConvertibleToBuilder(procs[t].builderType)]
    /\ UNCHANGED <<trees, lists, handles, last, applog, mp, mlast, rcall,
                   gomaps, registry, mux, stmts, built, arrays>>

\* the deferred BuilderMux.Unlock(); the call returns or goes on panicking
RegUnlock(t) ==
    /\ At(t, "Unlock")
    /\ mux' = Unlock(mux)
    /\ procs' = [procs EXCEPT ![t] = Idle]
    /\ last' = Shared(StoredPairs, CallsMade, procs[t])
    /\ UNCHANGED <<trees, lists, handles, applog, mp, mlast, rcall, gomaps,
                   registry, stmts, built, arrays>>

CallLookup(t) ==
    /\ At(t, "idle")
    /\ CallsMade < MaxCalls
    /\ \E op \in LookupOps, builderType \in SharedShapes :
          procs' = [procs EXCEPT ![t] =
                      [pc |-> "RLock", op |-> op, builderType |-> builderType,
                       structType |-> "", res |-> "", torn |-> FALSE,
                       panic |-> FALSE]]
    /\ last' = Shared(StoredPairs, CallsMade + 1, LastDone)
    /\ UNCHANGED <<trees, lists, handles, applog, mp, mlast, rcall, gomaps,
                   registry, mux, stmts, built, arrays>>

LookRLock(t) ==
    /\ At(t, "RLock")
    /\ CanRLock(mux)
    /\ mux' = RLock(mux)
    /\ Goto(t, "Index")
    /\ UNCHANGED <<trees, lists, handles, last, applog, mp, mlast, rcall,
                   gomaps, registry, stmts, built, arrays>>

LookIndexBegin(t) ==
    /\ At(t, "Index")
    /\ procs' = [procs EXCEPT ![t].pc = "Indexing", ![t].torn = Torn(t)]
    /\ UNCHANGED <<trees, lists, handles, last, applog, mp, mlast, rcall,
                   gomaps, registry, mux, stmts, built, arrays>>

\* structType, ok := BuilderTypes[builderType]; a torn index yields anything
LookIndexEnd(t) ==
    /\ At(t, "Indexing")
    /\ \E res \in IF procs[t].torn \/ Torn(t)
                  THEN SharedStructTypes \cup {"", "Foo"}
                  ELSE {IF procs[t].builderType \in DOMAIN registry
                        THEN registry[procs[t].builderType] ELSE ""} :
          procs' = [procs EXCEPT ![t].pc = "RUnlock", ![t].res = res]
    /\ UNCHANGED <<trees, lists, handles, last, applog, mp, mlast, rcall,
                   gomaps, registry, mux, stmts, built, arrays>>

\* the deferred BuilderMux.RUnlock(); GetBuilderStructType returns
LookRUnlock(t) ==
    /\ At(t, "RUnlock")
    /\ mux' = RUnlock(mux)
    /\ IF procs[t].op = "NewBuilderStruct"
       THEN Goto(t, "New") /\ UNCHANGED last
       ELSE /\ procs' = [procs EXCEPT ![t] = Idle]
            /\ last' = Shared(StoredPairs, CallsMade, procs[t])
    /\ UNCHANGED <<trees, lists, handles, applog, mp, mlast, rcall, gomaps,
                   registry, stmts, built, arrays>>

\* NewBuilderStruct: nil for a nil type, else reflect.New(structType).Elem()
LookNew(t) ==
    /\ At(t, "New")
    /\ procs' = [procs EXCEPT ![t] = Idle]
    /\ last' = Shared(StoredPairs, CallsMade, procs[t])
    /\ UNCHANGED <<trees, lists, handles, applog, mp, mlast, rcall, gomaps,
                   registry, mux, stmts, built, arrays>>

MuxNext ==
    \E t \in Threads :
        \/ CallRegister(t) \/ RegLock(t) \/ RegNumField(t) \/ RegPutBegin(t)
        \/ RegPutEnd(t) \/ RegConvert(t) \/ RegUnlock(t)
        \/ CallLookup(t) \/ LookRLock(t) \/ LookIndexBegin(t)
        \/ LookIndexEnd(t) \/ LookRUnlock(t) \/ LookNew(t)

MuxSpec == Init /\ [][MuxNext]_vars

(***************************************************************************)
(* Goroutines deriving from one shared builder.  The shared builder is     *)
(* made first; then every goroutine makes one call of Set, Remove, Append  *)
(* or Extend on it.  A call reads the structure and then stores to the     *)
(* heap one node per step: the nodes it allocated, in the order of their   *)
(* allocation, the list nodes before the tree nodes, and every node that   *)
(* existed before and that it changed.  last keeps the heaps as they were  *)
(* when the builder was shared.                                            *)
(***************************************************************************)
\* the calls the shared builder is made of, and the calls made on it
SharedCalls ==
    {[op |-> "Set", name |-> KeyX, vs |-> <<IntVal(1)>>],
     [op |-> "Append", name |-> KeyI, vs |-> <<IntVal(1)>>]}

DeriveCalls ==
    {[op |-> "Set", name |-> KeyX, vs |-> <<IntVal(2)>>],
     [op |-> "Remove", name |-> KeyI, vs |-> <<>>],
     [op |-> "Append", name |-> KeyI, vs |-> <<IntVal(2)>>],
     [op |-> "Extend", name |-> KeyI, vs |-> <<IntVal(1)>>]}

Derive(th, lh, b, call) ==
    CASE call.op = "Set" -> Set(th, lh, b, call.name, call.vs[1])
      [] call.op = "Remove" -> Remove(th, lh, b, call.name)
      [] call.op = "Append" -> AppendValues(th, lh, b, call.name, call.vs)
      [] call.op = "Extend" ->
            Extend(th, lh, b, call.name, [isNil |-> FALSE, elems |-> call.vs])

RECURSIVE DeriveAll(_, _, _, _)
DeriveAll(th, lh, b, calls) ==
    IF calls = <<>> THEN [th |-> th, lh |-> lh, b |-> b, panic |-> FALSE]
    ELSE LET r == Derive(th, lh, b, Head(calls))
         IN DeriveAll(r.th, r.lh, r.b, Tail(calls))

\* memory as the allocator hands it out
zeroTree ==
    [count |-> 0, hash |-> Zero64, key |-> <<>>, value |-> NilVal,
     children |-> <<Nil, Nil>>]
zeroList == [depth |-> 0, value |-> NilVal, tail |-> Nil]

Grown(h, n, zero) == h \o [a \in 1..(n - Len(h)) |-> zero]

Changed(h, planned) == {a \in 1..Len(h) : planned[a] # h[a]}

\* the nodes a call stores: those it allocated and those it changed
Stores(h, planned) ==
    [a \in Changed(h, planned) \cup ((Len(h) + 1)..Len(planned)) |-> planned[a]]

SharedHandle == handles[2]
IsShared == Len(handles) = 2
Heap0 == last.heap0

\* r is what the calls that made the shared builder returned
SharedAs(r) ==
    /\ trees' = r.th
    /\ lists' = r.lh
    /\ handles' = Append(handles, r.b)
    /\ last' = [op |-> "Share", src |-> 1, dst |-> 2, panic |-> FALSE,
                heap0 |-> [th |-> r.th, lh |-> r.lh]]
    /\ UNCHANGED <<applog, mp, mlast, rcall, gomaps, registry, mux, stmts,
                   built, procs, arrays>>

Share ==
    /\ ~IsShared
    /\ \E calls \in SeqsUpTo(SharedCalls, MaxShared) :
          SharedAs(DeriveAll(trees, lists, Nil, calls))

\* r is what the call returns when it runs alone
Began(t, call, r) ==
    /\ procs' = [procs EXCEPT ![t] =
                    [pc |-> "run", call |-> call,
                     th |-> Stores(trees, r.th), lh |-> Stores(lists, r.lh),
                     b |-> r.b, panic |-> r.panic,
                     tn |-> Len(trees) + 1, tend |-> Len(r.th),
                     ln |-> Len(lists) + 1, lend |-> Len(r.lh),
                     dirtyT |-> Changed(trees, r.th),
                     dirtyL |-> Changed(lists, r.lh)]]
    /\ trees' = Grown(trees, Len(r.th), zeroTree)
    /\ lists' = Grown(lists, Len(r.lh), zeroList)
    /\ UNCHANGED <<handles, last, applog, mp, mlast, rcall, gomaps, registry,
                   mux, stmts, built, arrays>>

\* the call reads the shared builder and is handed its memory; the
\* goroutines are numbered in the order they begin
Begin(t) ==
    /\ IsShared
    /\ At(t, "idle")
    /\ \A u \in Threads : u < t => ~At(u, "idle")
    /\ \E call \in DeriveCalls :
          Began(t, call, Derive(trees, lists, SharedHandle, call))

ListsStored(t) == procs[t].dirtyL = {} /\ procs[t].ln > procs[t].lend
TreesStored(t) == procs[t].dirtyT = {} /\ procs[t].tn > procs[t].tend

\* one list node is stored
StoreList(t) ==
    /\ At(t, "run")
    /\ ~ListsStored(t)
    /\ LET a == IF procs[t].dirtyL # {}
                THEN CHOOSE x \in procs[t].dirtyL : \A y \in procs[t].dirtyL : x <= y
                ELSE procs[t].ln
       IN /\ lists' = [lists EXCEPT ![a] = procs[t].lh[a]]
          /\ procs' = [procs EXCEPT
                         ![t].dirtyL = procs[t].dirtyL \ {a},
                         ![t].ln = IF procs[t].dirtyL # {} THEN procs[t].ln
                                   ELSE procs[t].ln + 1]
    /\ UNCHANGED <<trees, handles, last, applog, mp, mlast, rcall, gomaps,
                   registry, mux, stmts, built, arrays>>

\* one tree node is stored
StoreTree(t) ==
    /\ At(t, "run")
    /\ ListsStored(t)
    /\ ~TreesStored(t)
    /\ LET a == IF procs[t].dirtyT # {}
                THEN CHOOSE x \in procs[t].dirtyT : \A y \in procs[t].dirtyT : x <= y
                ELSE procs[t].tn
       IN /\ trees' = [trees EXCEPT ![a] = procs[t].th[a]]
          /\ procs' = [procs EXCEPT
                         ![t].dirtyT = procs[t].dirtyT \ {a},
                         ![t].tn = IF procs[t].dirtyT # {} THEN procs[t].tn
                                   ELSE procs[t].tn + 1]
    /\ UNCHANGED <<lists, handles, last, applog, mp, mlast, rcall, gomaps,
                   registry, mux, stmts, built, arrays>>

\* the call returns its builder
Return(t) ==
    /\ At(t, "run")
    /\ ListsStored(t) /\ TreesStored(t)
    /\ procs' = [procs EXCEPT ![t].pc = "done"]
    /\ UNCHANGED <<trees, lists, handles, last, applog, mp, mlast, rcall,
                   gomaps, registry, mux, stmts, built, arrays>>

ShareNext ==
    \/ Share
    \/ \E t \in Threads : Begin(t) \/ StoreList(t) \/ StoreTree(t) \/ Return(t)

ShareSpec == Init /\ [][ShareNext]_vars

(***************************************************************************)
(* Properties of the builder and of the map                                *)
(***************************************************************************)

\* C1: deriving a builder with Set, Append, Extend or Remove leaves what Get
\* returns for every name on every handle made so far as it was, the handle
\* derived from included and also when it has been derived from before.
FrameKept ==
    \A i \in 1..Len(handles), n \in Names :
        Get(trees', lists', handles[i], n) = Get(trees, lists, handles[i], n)

C1_DeriveKeepsOriginal == [][FrameKept]_vars

\* a second builder derived from handle 2, changing a name that handle 2
\* holds and that handle 3 holds differently
C1_SplitChain ==
    /\ last.op \in {"Set", "Append", "Extend"}
    /\ last.src = 2 /\ last.dst = 4
    /\ last.pre.found
    /\ Get(trees, lists, handles[4], last.name)
          # Get(trees, lists, handles[2], last.name)
    /\ Get(trees, lists, handles[3], last.name)
          # Get(trees, lists, handles[2], last.name)
    /\ Get(trees, lists, handles[3], last.name)
          # Get(trees, lists, handles[4], last.name)

\* C2: deleting a key that is present makes Lookup of it report
\* found = false and makes the size one less.
C2_DeleteThenLookup ==
    (mlast.op = "Delete" /\ mlast.pre.found)
        => /\ ~MapLookup(trees, mp, mlast.key).found
           /\ Size(trees, mp) = mlast.preSize - 1

\* C3: after Set(k, v), Lookup(k) returns (v, true), whether k was new or
\* present, and overwriting a present key leaves the size as it was.
C3_SetThenLookup ==
    mlast.op = "Set"
        => /\ MapLookup(trees, mp, mlast.key) = [val |-> mlast.val, found |-> TRUE]
           /\ mlast.pre.found => Size(trees, mp) = mlast.preSize

\* an overwrite of a key stored below the root of a map of three keys
C3_OverwriteBelowRoot ==
    /\ mlast.op = "Set"
    /\ mlast.pre.found
    /\ mlast.pre.val # mlast.val
    /\ Size(trees, mp) >= 3
    /\ trees[mp].key # mlast.key

RECURSIVE NonEmptyTexts(_)
NonEmptyTexts(parts) ==
    IF parts = <<>> THEN <<>>
    ELSE (IF ToN1ql(Head(parts)).sql = <<>> THEN <<>>
          ELSE <<ToN1ql(Head(parts)).sql>>) \o NonEmptyTexts(Tail(parts))

\* the number of places where sub occurs in s
Occurrences(s, sub) ==
    Cardinality({i \in 1..Len(s) :
                    i + Len(sub) - 1 <= Len(s) /\ SubSeq(s, i, i + Len(sub) - 1) = sub})

AllRender(parts) == \A i \in 1..Len(parts) : ToN1ql(parts[i]).err = ""

\* C5: for parts that all render and a non-empty separator, buildClauses
\* writes the non-empty renderings in order with the separator between
\* consecutive ones only: one separator fewer than there are non-empty
\* renderings, none leading, none trailing.
C5_SeparatorOnlyBetween ==
    (rcall.fn = "buildClauses" /\ rcall.sep # <<>> /\ AllRender(rcall.parts))
        => LET texts == NonEmptyTexts(rcall.parts)
           IN /\ rcall.out.err = ""
              /\ Occurrences(rcall.out.sql, rcall.sep)
                    = IF Len(texts) < 2 THEN 0 ELSE Len(texts) - 1
              /\ rcall.out.sql = Join(texts, rcall.sep)

\* the binding sites of a template: the markers that are not part of a
\* doubled marker, scanning left to right
RECURSIVE Markers(_)
Markers(s) ==
    IF s = <<>> THEN 0
    ELSE IF Head(s) = "?" /\ Len(s) > 1 /\ s[2] = "?" THEN Markers(Tail(Tail(s)))
    ELSE (IF Head(s) = "?" THEN 1 ELSE 0) + Markers(Tail(s))

\* C6: a doubled marker is no binding site: a template whose single markers
\* are as many as its arguments renders without error, whatever doubled
\* markers it holds, and binds exactly those arguments.
C6_DoubledMarkerIsNoBindingSite ==
    (rcall.fn = "expr" /\ simple(rcall.e)
        /\ Markers(rcall.e.sql) = Len(rcall.e.args))
        => rcall.out.err = "" /\ rcall.out.args = rcall.e.args

\* the numbers of the index tokens $n of a text, left to right
RECURSIVE DigitsValue(_, _)
DigitsValue(s, acc) ==
    IF s = <<>> \/ ~(\E d \in 0..9 : Digit(d) = Head(s)) THEN acc
    ELSE DigitsValue(Tail(s), 10 * acc + (CHOOSE d \in 0..9 : Digit(d) = Head(s)))

RECURSIVE DollarTokens(_)
DollarTokens(s) ==
    IF s = <<>> THEN <<>>
    ELSE IF Head(s) = "$" THEN <<DigitsValue(Tail(s), 0)>> \o DollarTokens(Tail(s))
    ELSE DollarTokens(Tail(s))

\* C7: a Dollar select that embeds a Dollar select with FromSelect renders
\* with the index tokens $1..$n once each, in order, n being the number of
\* arguments returned.
C7_NumberedOnceAtOutermost ==
    (/\ rcall.fn = "select"
     /\ rcall.out.err = ""
     /\ rcall.b.data.PlaceholderFormat = "Dollar"
     /\ rcall.b.data.From.kind = "alias"
     /\ rcall.b.data.From.expr.kind = "select"
     /\ rcall.b.data.From.expr.data.PlaceholderFormat = "Dollar")
        => DollarTokens(rcall.out.sql) = [i \in 1..Len(rcall.out.args) |-> i]

\* the text with the k-th single marker replaced by $k and each doubled
\* marker by one literal marker, read off one character at a time
RECURSIVE Renumbered(_, _)
Renumbered(s, k) ==
    IF s = <<>> THEN <<>>
    ELSE IF Head(s) = "?" /\ Len(s) > 1 /\ s[2] = "?"
    THEN <<"?">> \o Renumbered(Tail(Tail(s)), k)
    ELSE IF Head(s) = "?" THEN <<"$">> \o Itoa(k) \o Renumbered(Tail(s), k + 1)
    ELSE <<Head(s)>> \o Renumbered(Tail(s), k)

\* C8: Dollar.ReplacePlaceholders replaces the k-th single marker by $k and
\* each doubled marker by one literal marker, and copies the rest; the
\* example "a ? b ?? c ?" becomes "a $1 b ? c $2".
C8_DollarRenumbers ==
    rcall.fn = "replace"
        => /\ rcall.out.err = ""
           /\ rcall.out.sql = Renumbered(rcall.sql, 1)
           /\ rcall.sql = tExample => rcall.out.sql = tExampleDollar

C8_Example ==
    rcall.fn = "replace" /\ rcall.sql = tExample /\ rcall.out.sql = tExampleDollar

\* C9: a template with more markers than arguments fails with an error,
\* empty text and no arguments.
C9_TooFewArgumentsFails ==
    (rcall.fn = "expr" /\ Markers(rcall.e.sql) > Len(rcall.e.args))
        => /\ rcall.out.err # ""
           /\ rcall.out.sql = <<>>
           /\ rcall.out.args = <<>>

\* two markers and one plain argument
C9_OneArgumentShort ==
    /\ rcall.fn = "expr"
    /\ Markers(rcall.e.sql) = 2
    /\ Count(rcall.e.sql, "?") = 2
    /\ Len(rcall.e.args) = 1
    /\ simple(rcall.e)
    /\ rcall.out.err = ErrArity

\* the pieces of a template between its binding sites; a doubled marker is
\* text of the piece it stands in
RECURSIVE SegmentsFrom(_, _)
SegmentsFrom(s, cur) ==
    IF s = <<>> THEN <<cur>>
    ELSE IF Head(s) = "?" /\ Len(s) > 1 /\ s[2] = "?"
    THEN SegmentsFrom(Tail(Tail(s)), cur \o <<"?", "?">>)
    ELSE IF Head(s) = "?" THEN <<cur>> \o SegmentsFrom(Tail(s), <<>>)
    ELSE SegmentsFrom(Tail(s), Append(cur, Head(s)))

Segments(s) == SegmentsFrom(s, <<>>)

Piece(arg) == IF IsN1qlizer(arg) THEN ToN1ql(arg).sql ELSE <<"?">>
PieceArgs(arg) == IF IsN1qlizer(arg) THEN ToN1ql(arg).args ELSE <<arg>>

RECURSIVE Weave(_, _, _)
Weave(segs, args, k) ==
    IF k = Len(segs) THEN segs[k]
    ELSE segs[k] \o Piece(args[k]) \o Weave(segs, args, k + 1)

RECURSIVE Flatten(_, _)
Flatten(args, n) ==
    IF n = 0 THEN <<>> ELSE Flatten(args, n - 1) \o PieceArgs(args[n])

\* C10: with a fragment among the arguments, the k-th marker is matched to
\* the k-th argument: the text is the template with each marker replaced by
\* the rendering of its fragment, or kept for a plain argument, every other
\* character kept, and the arguments are those of the markers, left to right.
C10_MarkersMatchedInOrder ==
    (rcall.fn = "expr" /\ ~simple(rcall.e) /\ rcall.out.err = "")
        => LET segs == Segments(rcall.e.sql)
           IN /\ rcall.out.sql = Weave(segs, rcall.e.args, 1)
              /\ rcall.out.args = Flatten(rcall.e.args, Len(segs) - 1)

\* The same statement for templates without a doubled marker.
MarkersMatchedWithoutDoubled ==
    (rcall.fn = "expr" /\ ~simple(rcall.e) /\ rcall.out.err = ""
        /\ Markers(rcall.e.sql) = Count(rcall.e.sql, "?"))
        => LET segs == Segments(rcall.e.sql)
           IN /\ rcall.out.sql = Weave(segs, rcall.e.args, 1)
              /\ rcall.out.args = Flatten(rcall.e.args, Len(segs) - 1)

\* the first child whose own rendering fails, 0 if none does
FirstFailing(children) ==
    IF \E k \in 1..Len(children) : ToN1ql(children[k]).err # ""
    THEN CHOOSE k \in 1..Len(children) :
             /\ ToN1ql(children[k]).err # ""
             /\ \A j \in 1..(k - 1) : ToN1ql(children[j]).err = ""
    ELSE 0

\* C11: when a child fragment's ToN1ql returns an error, the enclosing
\* composite (Expr with nested arguments, Alias, And, Or, buildClauses,
\* FTSConjunction, FTSDisjunction, a statement builder) returns that error,
\* with empty text and no arguments (buildClauses returns no text, only
\* the arguments and the error).
C11_ErrorsPropagate ==
    (rcall.fn = "composite" /\ FirstFailing(rcall.children) # 0)
        => /\ rcall.out.err = ToN1ql(rcall.children[FirstFailing(rcall.children)]).err
           /\ rcall.out.args = <<>>
           /\ rcall.how # "buildClauses" => rcall.out.sql = <<>>

\* the same for every composite but the two full-text junctions
ErrorsPropagateOutsideFTS ==
    (rcall.fn = "composite" /\ FirstFailing(rcall.children) # 0
        /\ rcall.how \notin {"FTSConjunction", "FTSDisjunction"})
        => /\ rcall.out.err = ToN1ql(rcall.children[FirstFailing(rcall.children)]).err
           /\ rcall.out.args = <<>>
           /\ rcall.how # "buildClauses" => rcall.out.sql = <<>>

(***************************************************************************)
(* Properties of the statement builders                                    *)
(***************************************************************************)
ReceiverKept ==
    Rendering(stmts[last.src].type, stmts[last.src].b) = last.pre

\* C12: for an UpdateBuilder b that already has a SET clause, Set and
\* SetMap leave b unchanged: b.ToN1ql() returns the same text and
\* arguments after the call as before it; likewise for the receiver of
\* AnalyticsSelectBuilder.Let.
C12_SetKeepsReceiver ==
    ((last.op \in {"Set", "SetMap"} /\ last.had > 0) \/ last.op = "Let")
        => ReceiverKept

\* the first SET clause or LET binding of a builder leaves its receiver as
\* it was: the map is then a new one
FirstEntryKeepsReceiver ==
    (last.op \in {"Set", "SetMap", "Let"} /\ last.had = 0) => ReceiverKept

\* Where, which appends to a persistent list, keeps its receiver
WhereKeepsReceiver == last.op = "Where" => ReceiverKept

\* the SELECT list and the arguments that a sequence of columns stands for
ColumnTexts(cols) == [i \in 1..Len(cols) |-> cols[i].column]

RECURSIVE ColumnArgsOf(_)
ColumnArgsOf(cols) ==
    IF cols = <<>> THEN <<>> ELSE Head(cols).args \o ColumnArgsOf(Tail(cols))

\* C13: after any interleaving of Columns and Column calls the rendered
\* SELECT list holds every column passed to every call, in call order;
\* none added by an earlier call is lost.
C13_EveryColumnRendered ==
    \A i \in 1..Len(stmts) :
        (stmts[i].type = "SelectBuilder" /\ stmts[i].cols # <<>>)
            => LET out == Rendering("SelectBuilder", stmts[i].b)
               IN /\ ~out.panic /\ out.err = ""
                  /\ out.sql = tSELECT \o Join(ColumnTexts(stmts[i].cols), tComma)
                  /\ out.args = ColumnArgsOf(stmts[i].cols)

\* the last call on its own is rendered as claimed: the columns of a
\* Columns call, or those of the run of Column calls since the last Columns
ColumnsOfLastCallRendered ==
    \A i \in 1..Len(stmts) :
        (stmts[i].type = "SelectBuilder" /\ stmts[i].cols # <<>>)
            => LET out == Rendering("SelectBuilder", stmts[i].b)
                   n == Len(stmts[i].cols)
               IN /\ ~out.panic /\ out.err = ""
                  /\ \E k \in 1..n :
                        out.sql = tSELECT
                            \o Join(ColumnTexts(SubSeq(stmts[i].cols, k, n)), tComma)

(***************************************************************************)
(* Properties of the list                                                  *)
(***************************************************************************)
\* the values read by taking Head then Tail until the list is empty, and
\* the number of Tail steps taken (at most fuel)
RECURSIVE Walk(_, _, _)
Walk(kind, p, fuel) ==
    IF fuel = 0 \/ ListIsNil(kind, lists, p) THEN <<>>
    ELSE <<list_Head(kind, lists, p).val>>
             \o Walk(kind, list_Tail(kind, lists, p).p, fuel - 1)

Reversed(s) == [i \in 1..Len(s) |-> s[Len(s) + 1 - i]]

\* C14: a list made by n Cons calls from the empty list has Size n; Head
\* then Tail, repeated, read the inserted values in reverse order of
\* insertion and reach the empty list after exactly n Tail steps; every
\* list a later one was derived from keeps its size and contents.
C14_ConsReversed ==
    \A i \in 1..Len(built) :
        /\ ListSize(lists, built[i].p) = Len(built[i].vals)
        /\ Walk(built[i].kind, built[i].p, MaxLists + 1) = Reversed(built[i].vals)

\* two lists of two values consed onto one shared list of one value
C14_SharedTail ==
    \E i, j, k \in 1..Len(built) :
        /\ j # k /\ built[j].by = "Cons" /\ built[k].by = "Cons"
        /\ Len(built[i].vals) = 1
        /\ Len(built[j].vals) = 2 /\ Len(built[k].vals) = 2
        /\ ListTail(lists, built[j].p) = built[i].p
        /\ ListTail(lists, built[k].p) = built[i].p
        /\ built[j].vals # built[k].vals

\* C15: Head and Tail panic exactly when the list is empty, for lists and
\* for generic lists, an empty list that is the Tail of a one-element list
\* included.
C15_PanicExactlyOnEmpty ==
    last.op \in {"Head", "Tail"}
        => (last.panic <=> built[last.src].vals = <<>>)

\* Head panics on the empty generic list that Tail returned for a
\* one-element list
C15_HeadOfEmptiedList ==
    /\ last.op = "Head" /\ last.panic
    /\ built[last.src].by = "Tail"
    /\ built[last.src].kind = "generic"

(***************************************************************************)
(* Properties of the accessors                                             *)
(***************************************************************************)
\* what an accessor returns for a stored entry: the value set, or the
\* appended values as a slice in the order of the appends
Materialized(e) == IF e.list THEN SliceVal(e.v) ELSE e.v

\* the struct of the given type that holds what is stored
ExpectedStruct(structType, stored) ==
    [f \in DOMAIN StructTypes[structType] |->
        IF f \in DOMAIN stored THEN Materialized(stored[f])
        ELSE Zero(StructTypes[structType][f])]

Registered == Current.type \in DOMAIN registry

HasNil(stored) ==
    \E n \in DOMAIN stored :
        IF stored[n].list THEN \E k \in 1..Len(stored[n].v) : stored[n].v[k] = NilVal
        ELSE stored[n].v = NilVal

\* C16: for a registered shape GetStruct returns a struct of the registered
\* type whose fields hold what is stored under their names, appended lists
\* as slices in append order, and the zero value elsewhere.
C16_GetStructHoldsStored ==
    (last.op = "GetStruct" /\ Registered)
        => /\ ~last.res.panic
           /\ ~last.res.isNil
           /\ last.res.s = ExpectedStruct(registry[Current.type], Current.stored)

\* the same for builders in which no nil is stored
GetStructHoldsStoredNonNil ==
    (last.op = "GetStruct" /\ Registered /\ ~HasNil(Current.stored))
        => /\ ~last.res.panic
           /\ ~last.res.isNil
           /\ last.res.s = ExpectedStruct(registry[Current.type], Current.stored)

\* X set to 5 and Add appended twice are read back by GetStruct
GetStructExample ==
    /\ last.op = "GetStruct" /\ Registered /\ ~last.res.panic
    /\ last.res.s[KeyX] = IntVal(5)
    /\ last.res.s[KeyAdd] = SliceVal(<<IntVal(3), IntVal(4)>>)
    /\ last.res.s[KeyY] = IntVal(0)

\* C17: for a shape that was never registered no accessor panics: GetStruct
\* returns nil, Get and GetMap return what is stored, appended lists as
\* slices in append order.
C17_UnregisteredAccessors ==
    (last.op \in {"GetStruct", "Get", "GetMap"} /\ ~Registered)
        => /\ ~last.res.panic
           /\ last.op = "GetStruct" => last.res.isNil
           /\ last.op = "Get" =>
                  /\ last.res.found <=> last.res.name \in DOMAIN Current.stored
                  /\ last.res.found =>
                         last.res.val = Materialized(Current.stored[last.res.name])
           /\ last.op = "GetMap" =>
                  last.res.m = [n \in DOMAIN Current.stored |->
                                   Materialized(Current.stored[n])]

\* the same for builders to whose lists no nil was appended
UnregisteredAccessorsNoNilAppended ==
    (/\ last.op \in {"GetStruct", "Get", "GetMap"} /\ ~Registered
     /\ \A n \in DOMAIN Current.stored :
            Current.stored[n].list =>
                \A k \in 1..Len(Current.stored[n].v) : Current.stored[n].v[k] # NilVal)
        => /\ ~last.res.panic
           /\ last.op = "GetStruct" => last.res.isNil
           /\ last.op = "Get" =>
                  /\ last.res.found <=> last.res.name \in DOMAIN Current.stored
                  /\ last.res.found =>
                         last.res.val = Materialized(Current.stored[last.res.name])
           /\ last.op = "GetMap" =>
                  last.res.m = [n \in DOMAIN Current.stored |->
                                   Materialized(Current.stored[n])]

\* C18: after Set(b, "I", nil) on a registered shape whose field I has an
\* interface type, GetStruct does not panic and the field I is nil.
C18_SetNilThenGetStruct ==
    (/\ last.op = "GetStruct" /\ Registered
     /\ KeyI \in DOMAIN Current.stored
     /\ Current.stored[KeyI] = [list |-> FALSE, v |-> NilVal])
        => /\ ~last.res.panic
           /\ last.res.s[KeyI] = NilVal

(***************************************************************************)
(* Properties of the registry                                              *)
(***************************************************************************)
\* C19: RegisterBuilderType panics when the record type is not a struct
\* type, and then the table holds what it held before the call and the lock
\* is free, so that every registration and lookup can go on.
C19_FailedRegisterHasNoEffect ==
    (last.op = "Register" /\ ~IsStruct(last.structType))
        => /\ last.panic
           /\ registry = last.before
           /\ mux = Unlocked
           /\ ~mux.w /\ mux.r = 0

\* a shape already registered was registered again with a type that is not
\* a struct type
C19_FailedReRegistration ==
    /\ last.op = "Register" /\ last.panic
    /\ last.structType = "[]int"
    /\ last.builderType = "fooBuilder"
    /\ RegLog # <<>>

\* the record type of the most recent registration of a shape that
\* returned, that of the package's own registrations if there is none
RECURSIVE Latest(_, _)
Latest(log, builderType) ==
    IF log = <<>>
    THEN IF builderType \in DOMAIN InitialRegistry
         THEN InitialRegistry[builderType] ELSE ""
    ELSE IF log[Len(log)].builderType = builderType THEN log[Len(log)].structType
    ELSE Latest(SubSeq(log, 1, Len(log) - 1), builderType)

\* C20: GetBuilderStructType returns for every builder shape the record
\* type of its most recent registration, nil if it was never registered;
\* registering one shape changes the type of no other shape.
C20_LastWriteWins ==
    /\ \A shape \in BuilderShapes :
          GetBuilderStructType(registry, shape) = Latest(RegLog, shape)
    /\ (last.op = "Lookup" /\ last.builderType \in BuilderShapes)
          => last.res = Latest(RegLog, last.builderType)
    /\ (last.op = "Register" /\ ~last.panic)
          => \A shape \in BuilderShapes \ {last.builderType} :
                GetBuilderStructType(registry, shape)
                    = GetBuilderStructType(last.before, shape)

\* a shape registered twice with different types is looked up, and a shape
\* never registered too
C20_ReRegistered ==
    /\ last.op = "Lookup" /\ last.builderType = "unregBuilder"
    /\ last.res = "selectData"
    /\ Len(RegLog) >= 2
    /\ RegLog[1] = [builderType |-> "unregBuilder", structType |-> "Foo"]
    /\ RegLog[2] = [builderType |-> "unregBuilder", structType |-> "selectData"]


(***************************************************************************)
(* The registry under concurrent callers                                   *)
(***************************************************************************)
Accessing(t) == At(t, "Putting") \/ At(t, "Indexing")

Looked(p) == p.op \in LookupOps

\* C21: under every interleaving of RegisterBuilderType, GetBuilderStructType
\* and NewBuilderStruct calls, no goroutine writes the table while another
\* one indexes or writes it, and every lookup yields nil or a record type
\* that some registration stored for that shape
C21_WritersSerialized ==
    /\ \A t \in Threads : At(t, "Putting") =>
          \A u \in Threads \ {t} : ~Accessing(u)
    /\ \A t \in Threads :
          (At(t, "RUnlock") \/ At(t, "New")) =>
             \/ procs[t].res = ""
             \/ <<procs[t].builderType, procs[t].res>> \in StoredPairs
    /\ Looked(LastDone) =>
          \/ LastDone.res = ""
          \/ <<LastDone.builderType, LastDone.res>> \in StoredPairs

\* a registration writes the table while another goroutine waits for the
\* lock, after a registration of a new shape returned
C21_WriterHoldsOthersBack ==
    /\ \E t \in Threads : /\ At(t, "Putting")
                          /\ \E u \in Threads \ {t} :
                                At(u, "RLock") \/ At(u, "Lock")
    /\ LastDone.op = "RegisterBuilderType"
    /\ LastDone.builderType = "unregBuilder"
    /\ ~LastDone.panic


(***************************************************************************)
(* Goroutines deriving from one shared builder                             *)
(***************************************************************************)
RECURSIVE TreeNodes(_, _)
TreeNodes(th, m) ==
    IF m = Nil \/ m = nilTree THEN {nilTree}
    ELSE {m} \cup UNION {TreeNodes(th, th[m].children[i]) : i \in 1..childCount}

RECURSIVE ListNodes(_, _)
ListNodes(lh, p) ==
    IF p = Nil THEN {} ELSE {p} \cup ListNodes(lh, lh[p].tail)

\* the list nodes reachable from a builder
ListsOf(th, lh, b) ==
    UNION {ListNodes(lh, th[m].value.v[1]) :
              m \in {n \in TreeNodes(th, getBuilderMap(b)) : th[n].value.t = "list"}}

Content(th, lh, b) ==
    [name \in Names |-> Get(th, lh, b, name)]

Alone(call) == Derive(Heap0.th, Heap0.lh, SharedHandle, call)

\* C22: when goroutines derive from one shared builder without
\* coordination, no step stores to a map node or a list node reachable from
\* the shared builder, and the builder each call returns holds what the
\* same call returns when it runs alone
C22_SharedNeverWritten ==
    [][IsShared =>
         /\ \A a \in TreeNodes(trees, getBuilderMap(SharedHandle)) :
               trees'[a] = trees[a]
         /\ \A a \in ListsOf(trees, lists, SharedHandle) : lists'[a] = lists[a]
         /\ \A t \in Threads :
               procs'[t].pc = "done" =>
                  /\ Content(trees', lists', procs'[t].b)
                       = Content(Alone(procs'[t].call).th,
                                 Alone(procs'[t].call).lh,
                                 Alone(procs'[t].call).b)
                  /\ Size(trees', getBuilderMap(procs'[t].b))
                       = Size(Alone(procs'[t].call).th,
                              getBuilderMap(Alone(procs'[t].call).b))
                  /\ procs'[t].panic = Alone(procs'[t].call).panic]_vars

\* two goroutines are both part way through storing their nodes, deriving
\* from a builder that holds a list, and a third call, if any, is not done
C22_TwoDerivationsUnderWay ==
    /\ IsShared
    /\ ListsOf(trees, lists, SharedHandle) # {}
    /\ \E t, u \in Threads :
          /\ t # u
          /\ At(t, "run") /\ procs[t].tn > Len(Heap0.th) + 1 /\ ~TreesStored(t)
          /\ At(u, "run") /\ procs[u].ln > Len(Heap0.lh) + 1 /\ ~TreesStored(u)
          /\ procs[t].call.op = "Set" /\ procs[u].call.op = "Append"


(***************************************************************************)
(* The map: enumeration, counts, what Delete leaves alone, and the path    *)
(* to a key                                                                *)
(***************************************************************************)
Present(th, m) == {k \in MapKeys : MapLookup(th, m, k).found}

KeySet(th, m) == {Keys(th, m).keys[i] : i \in 1..Len(Keys(th, m).keys)}

\* the pairs of different keys, each pair in one of its two orders
KeyPairs == {p \in MapKeys \X MapKeys : p[1][1] < p[2][1]}

\* the map after Set(k1, v) and then Set(k2, v)
SetBoth(k1, k2, v) ==
    LET a == MapSet(trees, mp, k1, v)
        b == MapSet(a.h, a.p, k2, v)
    IN [th |-> b.h, m |-> b.p]

\* C23: on every map reached by Set and Delete calls, Keys() returns each
\* key that is present exactly once and no other key, so as many keys as
\* Size(); which keys it returns does not depend on the order in which they
\* were set
C23_KeysArePresentKeys ==
    /\ ~Keys(trees, mp).panic
    /\ Len(Keys(trees, mp).keys) = Size(trees, mp)
    /\ KeySet(trees, mp) = Present(trees, mp)
    /\ Cardinality(KeySet(trees, mp)) = Len(Keys(trees, mp).keys)
    /\ \A pair \in KeyPairs :
          LET a == SetBoth(pair[1], pair[2], IntVal(1))
              b == SetBoth(pair[2], pair[1], IntVal(1))
              keys == KeySet(a.th, a.m)
          IN /\ keys = KeySet(b.th, b.m)
             /\ keys = Present(trees, mp) \cup {pair[1], pair[2]}

\* two keys are enumerated after a Delete took the root of a map of three
\* keys away
C23_KeysAfterDelete ==
    /\ mlast.op = "Delete"
    /\ mlast.found
    /\ Cardinality(KeySet(trees, mp)) = 2
    /\ Keys(trees, mp).keys[1] # trees[mlast.prev].key

RECURSIVE Nodes(_, _)
Nodes(th, m) ==
    IF m = Nil \/ m = nilTree THEN {}
    ELSE {m} \cup UNION {Nodes(th, th[m].children[i]) : i \in 1..childCount}

RECURSIVE SumSizes(_, _, _)
SumSizes(th, m, i) ==
    IF i > childCount THEN 0
    ELSE Size(th, th[m].children[i]) + SumSizes(th, m, i + 1)

\* C24: on every map reached by Set and Delete calls, the count recorded in
\* every reachable node is 1 plus the sum of its children's counts, and
\* Size() is the number of keys Lookup finds
C24_CountsAddUp ==
    /\ \A n \in Nodes(trees, mp) : trees[n].count = 1 + SumSizes(trees, n, 1)
    /\ Size(trees, mp) = Cardinality(Present(trees, mp))

\* a Delete took the root of a map of three keys away
C24_RootDeleted ==
    /\ mlast.op = "Delete"
    /\ mlast.found
    /\ mlast.preSize = 3
    /\ trees[mlast.prev].key = mlast.key
    /\ Size(trees, mp) = 2

\* C25: Delete(k) leaves every other key as it was: a key other than k that
\* was found is found with the same value afterwards, also when the deleted
\* node is an interior node that a leftmost element replaces; and when k is
\* absent the map has the size and the content it had
C25_DeleteKeepsOtherKeys ==
    mlast.op = "Delete" =>
       /\ ~mlast.panic
       /\ \A j \in MapKeys \ {mlast.key} :
             MapLookup(trees, mlast.prev, j).found =>
                MapLookup(trees, mp, j) = MapLookup(trees, mlast.prev, j)
       /\ ~mlast.pre.found =>
             /\ Size(trees, mp) = mlast.preSize
             /\ \A j \in MapKeys :
                   MapLookup(trees, mp, j) = MapLookup(trees, mlast.prev, j)

\* the root of a map of three keys with different values is deleted and the
\* deepest key takes its place
C25_InteriorNodeReplaced ==
    /\ mlast.op = "Delete"
    /\ mlast.found
    /\ mlast.preSize = 3
    /\ trees[mlast.prev].key = mlast.key
    /\ trees[mp].key # trees[trees[mlast.prev].children[1]].key
    /\ \E j \in MapKeys \ {mlast.key} :
          MapLookup(trees, mp, j) = [val |-> IntVal(2), found |-> TRUE]

\* the child slot the segment of the key's hash selects at a depth
Slot(hash, depth) == Mod64(Shr64(hash, shiftSize * depth), childCount) + 1

\* the slots on the way from the root to the node that holds a hash
RECURSIVE PathTo(_, _, _)
PathTo(th, m, hash) ==
    IF m = Nil \/ m = nilTree THEN <<>>
    ELSE IF th[m].hash = hash THEN <<>>
    ELSE LET i == CHOOSE j \in 1..childCount :
                     hash \in {th[n].hash : n \in Nodes(th, th[m].children[j])}
         IN <<i>> \o PathTo(th, th[m].children[i], hash)

\* C30: Set, Lookup and Delete go to a key by one path, taking at every
\* depth the child slot that the segment of the key's hash selects, so the
\* node where Set put a key is the node Lookup and Delete reach for it
C30_OnePathToAKey ==
    \A k \in Present(trees, mp) :
       /\ MapDelete(trees, mp, k).found
       /\ \A d \in 1..Len(PathTo(trees, mp, hashKey(k))) :
             PathTo(trees, mp, hashKey(k))[d] = Slot(hashKey(k), d - 1)


(***************************************************************************)
(* Expr: binding sites and arguments of what it renders to                 *)
(***************************************************************************)
\* no expression of the tree has arguments it does not bind or a doubled
\* marker
RECURSIVE ExactArity(_)
ExactArity(f) ==
    f.kind # "expr"
    \/ /\ Count(f.sql, "?") = Len(f.args)
       /\ Markers(f.sql) = Len(f.args)
       /\ \A k \in 1..Len(f.args) :
             IsN1qlizer(f.args[k]) => ExactArity(f.args[k])

\* C27: whenever Expr(template, args...).ToN1ql() succeeds, the text it
\* returns has as many binding-site markers as it returns arguments, also
\* with more arguments than markers and with nested fragments
C27_MarkersEqualArguments ==
    (rcall.fn = "expr" /\ rcall.out.err = "")
        => Markers(rcall.out.sql) = Len(rcall.out.args)

\* where every expression has exactly the arguments its markers bind, the
\* text has as many markers as there are arguments
MarkersEqualArgumentsAtExactArity ==
    (rcall.fn = "expr" /\ rcall.out.err = "" /\ ExactArity(rcall.e))
        => Markers(rcall.out.sql) = Len(rcall.out.args)


(***************************************************************************)
(* Execute helpers                                                         *)
(***************************************************************************)
\* the runner the helper under way holds can take the call it would make
RunnerFits ==
    /\ rcall.db # "nil"
    /\ rcall.fn = "ExecuteContext" => rcall.db = "QueryRunnerContext"

ShowsRows(i) ==
    LET data == StructOf(i)
    IN /\ ~data.isNil /\ ~data.panic
       /\ Rows(arrays, data.s[KeyValues]) = stmts[i].rows
       /\ (/\ Text(data.s[KeyInto]) # <<>>
           /\ Text(data.s[KeyKey]) = <<>>
           /\ Len(Texts(data.s[KeyColumns])) > 0
           /\ stmts[i].rows # <<>>) =>
             LET out == upsertToN1ql(gomaps, arrays, data, <<>>)
             IN out.err = "" /\ out.args = FlatItems(stmts[i].rows)

\* C28: after a := p.Values(x) and then c := p.Values(y), a renders the
\* rows of p followed by x, c the rows of p followed by y and p its own
\* rows only, whatever the number of rows of p
C28_ValuesSiblingsIndependent ==
    last.op = "Values" =>
        /\ ShowsRows(last.src)
        /\ ShowsRows(last.dst)
        /\ \A a \in 1..Len(stmts) :
              (stmts[a].from = last.src /\ a # last.dst) => ShowsRows(a)

\* append doubles the capacities 1 and 2, so that a slice of fewer than
\* three rows is full: builders derived from a parent of fewer than three
\* rows are independent
IndependentBelowThreeRows ==
    (last.op = "Values" /\ Len(stmts[last.src].rows) < 3) =>
        /\ ShowsRows(last.src)
        /\ ShowsRows(last.dst)
        /\ \A a \in 1..Len(stmts) :
              (stmts[a].from = last.src /\ a # last.dst) => ShowsRows(a)

\* the SetMap entries of the builder last rendered
SetMapOf(i) == gomaps[StructOf(i).s[KeySetMap].v[1]]

\* the builder last rendered was made with SetMap and renders its SET form
RendersSetMap(i) ==
    LET data == StructOf(i)
    IN /\ Text(data.s[KeyInto]) # <<>>
       /\ MapLen(gomaps, data.s[KeySetMap]) > 0
       /\ ~(Len(Texts(data.s[KeyColumns])) > 0 /\ Len(stmts[i].rows) > 0)

\* the text and the arguments of an UPSERT of the entries of m, all bound
\* to markers, in the given order of the columns
SetTextOf(into, order) ==
    tUPSERT \o tINTO \o into \o tUpsertSET
        \o Join([i \in 1..Len(order) |-> order[i] \o tIs \o tMarker], tComma)

FollowsColumns(out, into, m) ==
    \E order \in Orders(DOMAIN m) :
        /\ out.sql = SetTextOf(into, order)
        /\ out.args = [i \in 1..Len(order) |-> m[order[i]]]

\* C29: two calls of ToN1ql on the same UpsertBuilder made with a SetMap of
\* two or more entries return the same text and the same arguments in the
\* same order, and in each the i-th argument is the value of the i-th
\* column of the SET text
C29_SameRenderingTwice ==
    (/\ last.op = "ToN1ql"
     /\ last.again
     /\ RendersSetMap(last.src)
     /\ Cardinality(DOMAIN SetMapOf(last.src)) >= 2) =>
        /\ last.out = last.prev
        /\ FollowsColumns(last.out, <<"b">>, SetMapOf(last.src))
        /\ FollowsColumns(last.prev, <<"b">>, SetMapOf(last.src))

\* in every rendering of a SetMap the i-th argument is the value of the
\* i-th column of the text
ArgsFollowColumns ==
    (last.op = "ToN1ql" /\ RendersSetMap(last.src)) =>
        FollowsColumns(last.out, <<"b">>, SetMapOf(last.src))

\* a SetMap of two entries has been rendered twice
SetMapRenderedTwice ==
    /\ last.op = "ToN1ql"
    /\ last.again
    /\ RendersSetMap(last.src)
    /\ Cardinality(DOMAIN SetMapOf(last.src)) >= 2

====
